---- MODULE Spec2Model ----
(***************************************************************************)
(* Model of the mock API server of k6-sandbox (mock-server, an Express     *)
(* application) as seen by its HTTP clients.                               *)
(*                                                                         *)
(* JavaScript values that travel in JSON bodies are written as their       *)
(* literal text ("undefined" for an absent field, "''" for the empty       *)
(* string, "'alice'" for a string, "0" and "42" for numbers).  Path        *)
(* parameters are sequences of one-character strings, so that parseInt     *)
(* is modelled by what it does to the text.  Time is a millisecond clock   *)
(* that jumps between sample instants.                                     *)
(***************************************************************************)
EXTENDS Integers, Sequences, FiniteSets, TLC

VARIABLES
    now,        \* Date.now() of the server, in milliseconds
    pending,    \* requests whose handler awaits its setTimeout promise
    last,       \* the most recent completed request/response exchange
    authToken,  \* the token a client extracted from its last successful login
    loginPayload, \* the username of that login and the second it was made in
    created,    \* the user a client extracted from its last 201 creation response
    deleted,    \* the ids whose deletion the server has acknowledged
    call,       \* the most recent call of a helper of the scripts and its result
    vu,         \* each virtual user's position in its iteration and its locals
    metrics     \* the custom metrics of the running script

vars ==
    <<now, pending, last, authToken, loginPayload, created, deleted, call, vu, metrics>>

-----------------------------------------------------------------------------
(* Bounds of the model *)

MaxTime == 3700000
MaxPending == 1
MaxVUs == 2
MaxIterations == 2
RandDenom == 10000

-----------------------------------------------------------------------------
(* JavaScript values *)

Falsy == {"undefined", "null", "''", "0", "false"}

Truthy(v) == v \notin Falsy

\* a || b on JavaScript values
OrElse(a, b) == IF Truthy(a) THEN a ELSE b

NaN == [nan |-> TRUE, val |-> 0]

Num(n) == [nan |-> FALSE, val |-> n]

\* n || d for a number n: NaN and 0 are falsy
NumOr(n, d) == IF n.nan \/ n.val = 0 THEN d ELSE n.val

MathMin(a, b) == IF a < b THEN a ELSE b

DigitOf(c) ==
    CASE c = "0" -> 0 [] c = "1" -> 1 [] c = "2" -> 2 [] c = "3" -> 3
      [] c = "4" -> 4 [] c = "5" -> 5 [] c = "6" -> 6 [] c = "7" -> 7
      [] c = "8" -> 8 [] c = "9" -> 9
      [] c \in {"a", "A"} -> 10 [] c \in {"b", "B"} -> 11
      [] c \in {"c", "C"} -> 12 [] c \in {"d", "D"} -> 13
      [] c \in {"e", "E"} -> 14 [] c \in {"f", "F"} -> 15
      [] OTHER -> 99

RECURSIVE TrimLeft(_)
TrimLeft(s) ==
    IF s # <<>> /\ Head(s) = " " THEN TrimLeft(Tail(s)) ELSE s

RECURSIVE ParseDigits(_, _, _)
ParseDigits(s, radix, acc) ==
    IF s = <<>> \/ DigitOf(Head(s)) >= radix
    THEN acc
    ELSE ParseDigits(Tail(s), radix, acc * radix + DigitOf(Head(s)))

\* parseInt(string) with no radix argument
ParseInt(s) ==
    LET t == TrimLeft(s)
        signed == t # <<>> /\ Head(t) \in {"+", "-"}
        neg == t # <<>> /\ Head(t) = "-"
        u == IF signed THEN Tail(t) ELSE t
        hex == Len(u) >= 2 /\ u[1] = "0" /\ u[2] \in {"x", "X"}
        radix == IF hex THEN 16 ELSE 10
        d == IF hex THEN SubSeq(u, 3, Len(u)) ELSE u
    IN  IF d = <<>> \/ DigitOf(Head(d)) >= radix
        THEN NaN
        ELSE Num(IF neg THEN 0 - ParseDigits(d, radix, 0) ELSE ParseDigits(d, radix, 0))

\* Math.random() returns k / RandDenom for a draw k in 0 .. RandDenom - 1
RandomDraws == {0, RandDenom \div 5 - 1, RandDenom \div 5, RandDenom - 1}

\* Math.floor(Math.random() * n)
FloorRandomTimes(k, n) == (k * n) \div RandDenom

\* Math.random() < 0.2
RandomBelowFifth(k) == 5 * k < RandDenom

\* new Date().toISOString()
IsoNow(t) == t

-----------------------------------------------------------------------------
(* Responses *)

Json(status, body) == [status |-> status, body |-> body]

\* the 404 handler
\* NotFoundHandler reporting a success
NotFoundHandlerSuccess ==
    Json(404, [success |-> TRUE, error |-> "endpoint not found"])

\* the 404 handler, reached when no route matches
NotFoundHandler ==
    Json(404, [success |-> FALSE, error |-> "endpoint not found"])

\* the error handler, reached when a handler throws
ErrorHandler ==
    Json(500, [success |-> FALSE, error |-> "server error"])

\* a response that carries no body
NoBody == [empty |-> TRUE]

NoExchange ==
    [route |-> "none", req |-> <<>>, res |-> Json(0, NoBody),
     receivedAt |-> 0, sentAt |-> 0]

\* a completed exchange: the request, the response, when the request was
\* received and when the response was sent
Exchange(route, req, res, t0, t1) ==
    [route |-> route, req |-> req, res |-> res, receivedAt |-> t0, sentAt |-> t1]

NoToken == <<"no token">>

NoLogin == [username |-> "undefined", at |-> 0]

NoUser == [userId |-> 0 - 1, userName |-> "undefined", userEmail |-> "undefined"]

NoCall == [fn |-> "none"]

-----------------------------------------------------------------------------
(* The clock *)

expiresIn == 3600

Instants == {0, 1, 100, 10000, expiresIn * 1000 - 1, expiresIn * 1000, MaxTime}

Tick ==
    /\ \E t \in Instants : t > now /\ now' = t
    /\ UNCHANGED <<pending, last, authToken, loginPayload, created, deleted, call, vu, metrics>>

-----------------------------------------------------------------------------
(* POST /api/users *)

\* sample values of the body fields: absent, null, empty, a falsy number,
\* strings, a truthy number
Names == {"undefined", "null", "''", "0", "'alice'", "42"}

Emails == {"undefined", "''", "'alice@example.com'"}

Usernames == {"undefined", "''", "'alice'", "'bob'"}

Passwords == {"undefined", "''", "'wrong'", "'secret'", "42"}

\* PostUsers with the e-mail echoed from the wrong field
PostUsersWrongEcho(body, k, t) ==
    IF ~Truthy(body.name) \/ ~Truthy(body.email)
    THEN Json(400, [success |-> FALSE, error |-> "name and email are required"])
    ELSE Json(201, [success |-> TRUE,
                    data |-> [id |-> FloorRandomTimes(k, 10000),
                              name |-> body.name,
                              email |-> body.name,
                              createdAt |-> IsoNow(t)]])

\* PostUsers rejecting only when both fields are missing
PostUsersBothMissing(body, k, t) ==
    IF ~Truthy(body.name) /\ ~Truthy(body.email)
    THEN Json(400, [success |-> FALSE, error |-> "name and email are required"])
    ELSE Json(201, [success |-> TRUE,
                    data |-> [id |-> FloorRandomTimes(k, 10000),
                              name |-> body.name,
                              email |-> body.email,
                              createdAt |-> IsoNow(t)]])

PostUsers(body, k, t) ==
    IF ~Truthy(body.name) \/ ~Truthy(body.email)
    THEN Json(400, [success |-> FALSE, error |-> "name and email are required"])
    ELSE Json(201, [success |-> TRUE,
                    data |-> [id |-> FloorRandomTimes(k, 10000),
                              name |-> body.name,
                              email |-> body.email,
                              createdAt |-> IsoNow(t)]])

\* the client keeps the user of a 201 creation response
ExtractUser(res, held) ==
    IF res.status = 201
    THEN [userId |-> res.body.data.id, userName |-> res.body.data.name,
          userEmail |-> res.body.data.email]
    ELSE held

PostApiUsers ==
    /\ \E name \in Names, email \in Emails, k \in RandomDraws :
          LET body == [name |-> name, email |-> email]
              res == PostUsers(body, k, now)
          IN  /\ last' = Exchange("POST /api/users", [body |-> body], res, now, now)
              /\ created' = ExtractUser(res, created)
    /\ UNCHANGED <<now, pending, authToken, loginPayload, deleted, call, vu, metrics>>

-----------------------------------------------------------------------------
(* JSON Web Tokens (jwt.sign / jwt.verify with an HMAC secret) *)

JWT_SECRET == "k6-test-secret-key"

JwtHeader == [alg |-> "HS256", typ |-> "JWT"]

\* the signature over header.payload under a key
Hmac(header, payload, key) == [header |-> header, payload |-> payload, key |-> key]

\* a token is the three segments header.payload.signature
JwtSign(claims, key, t) ==
    LET iat == t \div 1000
        payload == [userId |-> claims.userId, username |-> claims.username,
                    iat |-> iat, exp |-> iat + expiresIn]
    IN  <<JwtHeader, payload, Hmac(JwtHeader, payload, key)>>

JwtFailed == [ok |-> FALSE, decoded |-> <<>>]

\* JwtVerify accepting a token in the second its exp names
JwtVerifyLate(token, key, t) ==
    IF Len(token) # 3 THEN JwtFailed
    ELSE IF token[3] # Hmac(token[1], token[2], key) THEN JwtFailed
    ELSE IF t \div 1000 > token[2].exp THEN JwtFailed
    ELSE [ok |-> TRUE, decoded |-> token[2]]

\* JwtVerify decoding the payload without checking the signature
JwtVerifyUnsigned(token, key, t) ==
    IF Len(token) # 3 THEN JwtFailed
    ELSE IF t \div 1000 >= token[2].exp THEN JwtFailed
    ELSE [ok |-> TRUE, decoded |-> token[2]]

\* jwt.verify: three segments, a signature made with the key, exp not reached
JwtVerify(token, key, t) ==
    IF Len(token) # 3 THEN JwtFailed
    ELSE IF token[3] # Hmac(token[1], token[2], key) THEN JwtFailed
    ELSE IF t \div 1000 >= token[2].exp THEN JwtFailed
    ELSE [ok |-> TRUE, decoded |-> token[2]]

-----------------------------------------------------------------------------
(* POST /api/auth/login *)

\* AuthLogin without the rejection of the password 'wrong'
AuthLoginAnyPassword(body, k, t) ==
    IF ~Truthy(body.username) \/ ~Truthy(body.password)
    THEN Json(400, [success |-> FALSE, error |-> "username and password are required"])
    ELSE Json(200, [success |-> TRUE,
                    data |-> [token |-> JwtSign([userId |-> FloorRandomTimes(k, 1000),
                                                 username |-> body.username],
                                                JWT_SECRET, t),
                              expiresIn |-> expiresIn]])

\* AuthLogin testing the password before the presence of the credentials
AuthLoginWrongFirst(body, k, t) ==
    IF body.password = "'wrong'"
    THEN Json(401, [success |-> FALSE, error |-> "authentication failed"])
    ELSE IF ~Truthy(body.username) \/ ~Truthy(body.password)
    THEN Json(400, [success |-> FALSE, error |-> "username and password are required"])
    ELSE Json(200, [success |-> TRUE,
                    data |-> [token |-> JwtSign([userId |-> FloorRandomTimes(k, 1000),
                                                 username |-> body.username],
                                                JWT_SECRET, t),
                              expiresIn |-> expiresIn]])

AuthLogin(body, k, t) ==
    IF ~Truthy(body.username) \/ ~Truthy(body.password)
    THEN Json(400, [success |-> FALSE, error |-> "username and password are required"])
    ELSE IF body.password = "'wrong'"
    THEN Json(401, [success |-> FALSE, error |-> "authentication failed"])
    ELSE Json(200, [success |-> TRUE,
                    data |-> [token |-> JwtSign([userId |-> FloorRandomTimes(k, 1000),
                                                 username |-> body.username],
                                                JWT_SECRET, t),
                              expiresIn |-> expiresIn]])

\* the client keeps the token of a 200 login response
ExtractToken(res, held) ==
    IF res.status = 200 THEN res.body.data.token ELSE held

PostApiAuthLogin ==
    /\ \E username \in Usernames, password \in Passwords, k \in RandomDraws :
          LET body == [username |-> username, password |-> password]
              res == AuthLogin(body, k, now)
          IN  /\ last' = Exchange("POST /api/auth/login", [body |-> body], res, now, now)
              /\ authToken' = ExtractToken(res, authToken)
              /\ loginPayload' = IF res.status = 200
                                 THEN [username |-> username, at |-> now \div 1000]
                                 ELSE loginPayload
    /\ UNCHANGED <<now, pending, created, deleted, call, vu, metrics>>

-----------------------------------------------------------------------------
(* GET /api/auth/me *)

\* a header value, split where substring(7) splits it
Header(first7, rest) == [present |-> TRUE, first7 |-> first7, rest |-> rest]

NoHeader == [present |-> FALSE, first7 |-> "", rest |-> <<>>]

Bearer(token) == Header("Bearer ", token)

\* the payload of a signed token altered, the signature kept
Tampered(token) ==
    IF Len(token) = 3
    THEN <<token[1], [token[2] EXCEPT !.username = "'admin'"], token[3]>>
    ELSE token

AuthHeaders(held, t) ==
    { NoHeader,
      Header("", <<>>),
      Header("Basic d", held),
      Header("bearer ", held),
      Bearer(held),
      Bearer(Tampered(held)),
      Bearer(JwtSign([userId |-> 1, username |-> "'admin'"], "guessed-key", t)),
      Bearer(<<"invalid-token">>),
      Bearer(<<"abc", "def">>),
      Bearer(<<>>) }

\* !authHeader || !authHeader.startsWith('Bearer ')
NoBearer(authHeader) ==
    \/ ~authHeader.present
    \/ (authHeader.first7 = "" /\ authHeader.rest = <<>>)
    \/ authHeader.first7 # "Bearer "

GetAuthMe(authHeader, t) ==
    IF NoBearer(authHeader)
    THEN Json(401, [success |-> FALSE, error |-> "auth token required"])
    ELSE LET v == JwtVerify(authHeader.rest, JWT_SECRET, t)
         IN  IF v.ok
             THEN Json(200, [success |-> TRUE,
                             data |-> [userId |-> v.decoded.userId,
                                       username |-> v.decoded.username]])
             ELSE Json(401, [success |-> FALSE, error |-> "invalid token"])

GetApiAuthMe ==
    /\ \E h \in AuthHeaders(authToken, now) :
          last' = Exchange("GET /api/auth/me", [authorization |-> h],
                           GetAuthMe(h, now), now, now)
    /\ UNCHANGED <<now, pending, authToken, loginPayload, created, deleted, call, vu, metrics>>

-----------------------------------------------------------------------------
(* GET /api/delay/:ms and GET /api/random-delay *)

maxDelay == 10000

DelayParams ==
    { <<"0">>, <<"1", "0", "0">>, <<"1", "0", "0", "0", "0">>,
      <<"6", "0", "0", "0", "0">>, <<"-", "5">>, <<"a", "b", "c">>,
      <<"1", "5", "0", ".", "7">> }

\* setTimeout(resolve, delay): a delay below 1 is run as 1
TimerDuration(delay) == IF delay < 1 THEN 1 ELSE delay

FreeConn(limit) == CHOOSE c \in 1..limit : \A p \in pending : p.conn # c

\* requests served side by side, one more than the requests left waiting
MaxInFlight == MaxPending + 1

InFlightDelayParams == { <<"0">> }

InFlightDraws == {0}

\* DelayAwait without the cap of maxDelay
DelayAwaitUncapped(ms, t) ==
    LET delayMs == NumOr(ParseInt(ms), 0)
    IN  [route |-> "GET /api/delay/:ms", ms |-> ms,
         delayMs |-> delayMs, delay |-> delayMs,
         receivedAt |-> t, dueAt |-> t + TimerDuration(delayMs)]

\* the handler up to its await
DelayAwait(ms, t) ==
    LET delayMs == NumOr(ParseInt(ms), 0)
        actualDelay == MathMin(delayMs, maxDelay)
    IN  [route |-> "GET /api/delay/:ms", ms |-> ms,
         delayMs |-> delayMs, delay |-> actualDelay,
         receivedAt |-> t, dueAt |-> t + TimerDuration(actualDelay)]

DelayReceived(params, limit) ==
    /\ Cardinality(pending) < limit
    /\ \E ms \in params :
          pending' = pending \cup {[conn |-> FreeConn(limit), timer |-> DelayAwait(ms, now)]}
    /\ UNCHANGED <<now, last, authToken, loginPayload, created, deleted, call, vu, metrics>>

GetApiDelay == DelayReceived(DelayParams, MaxPending)

GetApiDelayInFlight == DelayReceived(InFlightDelayParams, MaxInFlight)

\* the handler after its await
DelayRespond(w, t) ==
    Json(200, [success |-> TRUE,
               data |-> [requestedDelay |-> w.delayMs,
                         actualDelay |-> w.delay,
                         timestamp |-> IsoNow(t)]])

\* TimerDue for a handler that holds the event loop while it waits: the
\* requests received after it wait for it
TimerDueInTurn(w, t) ==
    /\ t >= w.dueAt
    /\ \A q \in pending : q.timer.receivedAt >= w.receivedAt

\* the timer has run out
TimerDue(w, t) == t >= w.dueAt

DelayResume(p) ==
    /\ p.timer.route = "GET /api/delay/:ms"
    /\ TimerDue(p.timer, now)
    /\ last' = Exchange(p.timer.route, p.timer, DelayRespond(p.timer, now),
                        p.timer.receivedAt, now)
    /\ pending' = pending \ {p}
    /\ UNCHANGED <<now, authToken, loginPayload, created, deleted, call, vu, metrics>>

GetApiDelayResume == \E p \in pending : DelayResume(p)

\* RandomDelayAwait drawing from a range 2000 wide
RandomDelayAwaitWide(k, t) ==
    LET delay == FloorRandomTimes(k, 2000) + 100
    IN  [route |-> "GET /api/random-delay", random |-> k,
         delayMs |-> delay, delay |-> delay,
         receivedAt |-> t, dueAt |-> t + TimerDuration(delay)]

RandomDelayAwait(k, t) ==
    LET delay == FloorRandomTimes(k, 1900) + 100
    IN  [route |-> "GET /api/random-delay", random |-> k,
         delayMs |-> delay, delay |-> delay,
         receivedAt |-> t, dueAt |-> t + TimerDuration(delay)]

RandomDelayReceived(draws, limit) ==
    /\ Cardinality(pending) < limit
    /\ \E k \in draws :
          pending' = pending
                        \cup {[conn |-> FreeConn(limit), timer |-> RandomDelayAwait(k, now)]}
    /\ UNCHANGED <<now, last, authToken, loginPayload, created, deleted, call, vu, metrics>>

GetApiRandomDelay == RandomDelayReceived(RandomDraws, MaxPending)

GetApiRandomDelayInFlight == RandomDelayReceived(InFlightDraws, MaxInFlight)

RandomDelayRespond(w, t) ==
    Json(200, [success |-> TRUE,
               data |-> [delay |-> w.delay, timestamp |-> IsoNow(t)]])

RandomDelayResume(p) ==
    /\ p.timer.route = "GET /api/random-delay"
    /\ TimerDue(p.timer, now)
    /\ last' = Exchange(p.timer.route, p.timer, RandomDelayRespond(p.timer, now),
                        p.timer.receivedAt, now)
    /\ pending' = pending \ {p}
    /\ UNCHANGED <<now, authToken, loginPayload, created, deleted, call, vu, metrics>>

GetApiRandomDelayResume == \E p \in pending : RandomDelayResume(p)

-----------------------------------------------------------------------------
(* GET /api/status/:code *)

StatusParams ==
    { <<"2", "0", "0">>, <<"2", "0", "1">>, <<"2", "0", "4">>, <<"3", "0", "4">>,
      <<"3", "9", "9">>, <<"4", "0", "0">>, <<"4", "0", "4">>, <<"5", "0", "3">>,
      <<"9", "9", "9">>, <<"1", "0", "0", "0">>, <<"9", "9">>, <<"1", "0", "1">>,
      <<"0">>, <<"-", "1">>, <<"a", "b", "c">>, <<"0", "x", "1", "F", "4">>,
      <<"4", "0", "4", ".", "5">>, <<" ", "5", "0", "0">> }

messages(statusCode) ==
    CASE statusCode = 200 -> "OK"
      [] statusCode = 400 -> "Bad Request"
      [] statusCode = 401 -> "Unauthorized"
      [] statusCode = 403 -> "Forbidden"
      [] statusCode = 404 -> "Not Found"
      [] statusCode = 500 -> "Internal Server Error"
      [] statusCode = 502 -> "Bad Gateway"
      [] statusCode = 503 -> "Service Unavailable"
      [] OTHER -> "Unknown Status"

\* a status the HTTP layer refuses to write: the send throws
InvalidStatus(statusCode) == statusCode < 100 \/ statusCode > 999

\* a status whose response is sent without its body
BodylessStatus(statusCode) == statusCode \in (100..199) \cup {204, 205, 304}

\* res.status(statusCode).json(body)
SendJson(statusCode, body) ==
    IF InvalidStatus(statusCode) THEN ErrorHandler
    ELSE IF BodylessStatus(statusCode) THEN Json(statusCode, NoBody)
    ELSE Json(statusCode, body)

\* GetStatus counting 400 as a success
GetStatusUpTo400(code) ==
    LET statusCode == NumOr(ParseInt(code), 200)
    IN  SendJson(statusCode, [success |-> statusCode <= 400,
                              statusCode |-> statusCode,
                              message |-> messages(statusCode)])

GetStatus(code) ==
    LET statusCode == NumOr(ParseInt(code), 200)
    IN  SendJson(statusCode, [success |-> statusCode < 400,
                              statusCode |-> statusCode,
                              message |-> messages(statusCode)])

GetApiStatus ==
    /\ \E code \in StatusParams :
          last' = Exchange("GET /api/status/:code", [code |-> code],
                           GetStatus(code), now, now)
    /\ UNCHANGED <<now, pending, authToken, loginPayload, created, deleted, call, vu, metrics>>

-----------------------------------------------------------------------------
(* GET /api/random-error *)

\* RandomError failing also on a draw of exactly 0.2
RandomErrorInclusive(k) ==
    IF 5 * k <= RandDenom
    THEN Json(500, [success |-> FALSE, error |-> "random server error"])
    ELSE Json(200, [success |-> TRUE, data |-> [message |-> "responded normally"]])

RandomError(k) ==
    IF RandomBelowFifth(k)
    THEN Json(500, [success |-> FALSE, error |-> "random server error"])
    ELSE Json(200, [success |-> TRUE, data |-> [message |-> "responded normally"]])

GetApiRandomError ==
    /\ \E k \in RandomDraws :
          last' = Exchange("GET /api/random-error", [random |-> k],
                           RandomError(k), now, now)
    /\ UNCHANGED <<now, pending, authToken, loginPayload, created, deleted, call, vu, metrics>>

-----------------------------------------------------------------------------
(* GET /api/users, GET, PUT and DELETE /api/users/:id *)

UserIdParams == { <<"2">>, <<"0">>, <<"9", "9", "9", "9">>, <<"a", "b", "c">> }

\* the text of a number inside a template string
NumText(n) == IF n.nan THEN "NaN" ELSE ToString(n.val)

\* `${userId}` after the word for user, the synthesized name
SynthName(userId) == "'user" \o NumText(userId) \o "'"

\* `user${userId}@example.com`
SynthEmail(userId) == "'user" \o NumText(userId) \o "@example.com'"

users ==
    << [id |-> 1, name |-> "'Tanaka Taro'", email |-> "'tanaka@example.com'"],
       [id |-> 2, name |-> "'Sato Hanako'", email |-> "'sato@example.com'"],
       [id |-> 3, name |-> "'Suzuki Ichiro'", email |-> "'suzuki@example.com'"] >>

GetUsers == Json(200, [success |-> TRUE, data |-> users])

GetApiUsers ==
    /\ last' = Exchange("GET /api/users", <<>>, GetUsers, now, now)
    /\ UNCHANGED <<now, pending, authToken, loginPayload, created, deleted, call, vu, metrics>>

\* GetUser answering 404 for an id whose deletion was acknowledged
GetUserUnlessDeleted(id, t) ==
    LET userId == ParseInt(id)
    IN  IF userId \in deleted
        THEN NotFoundHandler
        ELSE Json(200, [success |-> TRUE,
                        data |-> [id |-> userId,
                                  name |-> SynthName(userId),
                                  email |-> SynthEmail(userId),
                                  createdAt |-> IsoNow(t)]])

\* a NaN id is serialised as null
GetUser(id, t) ==
    LET userId == ParseInt(id)
    IN  Json(200, [success |-> TRUE,
                   data |-> [id |-> userId,
                             name |-> SynthName(userId),
                             email |-> SynthEmail(userId),
                             createdAt |-> IsoNow(t)]])

GetApiUser ==
    /\ \E id \in UserIdParams :
          last' = Exchange("GET /api/users/:id", [id |-> id], GetUser(id, now), now, now)
    /\ UNCHANGED <<now, pending, authToken, loginPayload, created, deleted, call, vu, metrics>>

PutUser(id, body, t) ==
    LET userId == ParseInt(id)
    IN  Json(200, [success |-> TRUE,
                   data |-> [id |-> userId,
                             name |-> OrElse(body.name, SynthName(userId)),
                             email |-> OrElse(body.email, SynthEmail(userId)),
                             updatedAt |-> IsoNow(t)]])

PutApiUser ==
    /\ \E id \in UserIdParams, name \in Names, email \in Emails :
          LET body == [name |-> name, email |-> email]
          IN  last' = Exchange("PUT /api/users/:id", [id |-> id, body |-> body],
                               PutUser(id, body, now), now, now)
    /\ UNCHANGED <<now, pending, authToken, loginPayload, created, deleted, call, vu, metrics>>

\* the message names the id
DeleteUser(id) ==
    LET userId == ParseInt(id)
    IN  Json(200, [success |-> TRUE,
                   message |-> "'user ID " \o NumText(userId) \o " deleted'"])

DeleteApiUser ==
    /\ \E id \in UserIdParams :
          LET res == DeleteUser(id)
          IN  /\ last' = Exchange("DELETE /api/users/:id", [id |-> id], res, now, now)
              /\ deleted' = IF res.status = 200 THEN deleted \cup {ParseInt(id)}
                            ELSE deleted
    /\ UNCHANGED <<now, pending, authToken, loginPayload, created, call, vu, metrics>>

-----------------------------------------------------------------------------
(* GET /api/large-payload *)

\* String(undefined), what parseInt reads when the query has no size
QueryAbsent == <<"u", "n", "d", "e", "f", "i", "n", "e", "d">>

SizeParams ==
    { QueryAbsent, <<"0">>, <<"1">>, <<"3">>, <<"1", "0">>, <<"-", "2">>, <<"x">> }

\* Array.from({ length }): a negative length is an empty array
ToLength(n) == IF n < 0 THEN 0 ELSE n

LargePayload(size, t) ==
    LET n == NumOr(ParseInt(size), 100)
        items == [i \in 1..ToLength(n) |->
                     [id |-> i,
                      name |-> "'item" \o ToString(i) \o "'",
                      description |-> "'dummy data'",
                      timestamp |-> IsoNow(t)]]
    IN  Json(200, [success |-> TRUE, count |-> Len(items), data |-> items])

GetApiLargePayload ==
    /\ \E size \in SizeParams :
          last' = Exchange("GET /api/large-payload", [size |-> size],
                           LargePayload(size, now), now, now)
    /\ UNCHANGED <<now, pending, authToken, loginPayload, created, deleted, call, vu, metrics>>

-----------------------------------------------------------------------------
(* The application: middleware, routes in the order of definition, 404 handler *)

Methods == {"GET", "POST", "PUT", "DELETE", "PATCH", "HEAD", "OPTIONS"}

\* request paths, as their segments
Paths ==
    { <<"health">>, <<"api", "users">>, <<"api", "users", "2">>,
      <<"api", "auth", "login">>, <<"api", "auth", "me">>, <<"api", "delay", "100">>,
      <<"api", "random-delay">>, <<"api", "status", "404">>, <<"api", "random-error">>,
      <<"api", "large-payload">>, <<"api", "upload">>, <<"api", "nonexistent">>,
      <<>>, <<"api">>, <<"api", "users", "2", "posts">>, <<"api", "delay">> }

\* what the JSON body parser finds in the request
Bodies == {"none", "json", "malformed"}

ParamSegments == {":id", ":ms", ":code"}

Layer(method, path, name) == [method |-> method, path |-> path, name |-> name]

\* Routes without the DELETE route
RoutesWithoutDelete ==
    << Layer("GET", <<"health">>, "GET /health"),
       Layer("GET", <<"api", "users">>, "GET /api/users"),
       Layer("GET", <<"api", "users", ":id">>, "GET /api/users/:id"),
       Layer("POST", <<"api", "users">>, "POST /api/users"),
       Layer("PUT", <<"api", "users", ":id">>, "PUT /api/users/:id"),
       Layer("POST", <<"api", "auth", "login">>, "POST /api/auth/login"),
       Layer("GET", <<"api", "auth", "me">>, "GET /api/auth/me"),
       Layer("GET", <<"api", "delay", ":ms">>, "GET /api/delay/:ms"),
       Layer("GET", <<"api", "random-delay">>, "GET /api/random-delay"),
       Layer("GET", <<"api", "status", ":code">>, "GET /api/status/:code"),
       Layer("GET", <<"api", "random-error">>, "GET /api/random-error"),
       Layer("GET", <<"api", "large-payload">>, "GET /api/large-payload"),
       Layer("POST", <<"api", "upload">>, "POST /api/upload") >>

Routes ==
    << Layer("GET", <<"health">>, "GET /health"),
       Layer("GET", <<"api", "users">>, "GET /api/users"),
       Layer("GET", <<"api", "users", ":id">>, "GET /api/users/:id"),
       Layer("POST", <<"api", "users">>, "POST /api/users"),
       Layer("PUT", <<"api", "users", ":id">>, "PUT /api/users/:id"),
       Layer("DELETE", <<"api", "users", ":id">>, "DELETE /api/users/:id"),
       Layer("POST", <<"api", "auth", "login">>, "POST /api/auth/login"),
       Layer("GET", <<"api", "auth", "me">>, "GET /api/auth/me"),
       Layer("GET", <<"api", "delay", ":ms">>, "GET /api/delay/:ms"),
       Layer("GET", <<"api", "random-delay">>, "GET /api/random-delay"),
       Layer("GET", <<"api", "status", ":code">>, "GET /api/status/:code"),
       Layer("GET", <<"api", "random-error">>, "GET /api/random-error"),
       Layer("GET", <<"api", "large-payload">>, "GET /api/large-payload"),
       Layer("POST", <<"api", "upload">>, "POST /api/upload") >>

\* a path matches a route pattern segment by segment; a parameter takes any
\* non-empty segment
MatchPath(pattern, path) ==
    /\ Len(pattern) = Len(path)
    /\ \A i \in 1..Len(pattern) :
          IF pattern[i] \in ParamSegments THEN path[i] # "" ELSE pattern[i] = path[i]

\* a HEAD request is routed to the GET routes
MatchMethod(layer, method) ==
    layer.method = (IF method = "HEAD" THEN "GET" ELSE method)

\* the response of the CORS middleware to a preflight request
Preflight == Json(204, NoBody)

\* the layer that answers a request and, when it is not a route handler, its
\* response
App(method, path, body) ==
    LET hits == { i \in DOMAIN Routes :
                     MatchMethod(Routes[i], method) /\ MatchPath(Routes[i].path, path) }
        first == CHOOSE i \in hits : \A j \in hits : i <= j
    IN  IF method = "OPTIONS" THEN [handler |-> "cors", res |-> Preflight]
        ELSE IF body = "malformed"
        THEN [handler |-> "error handler", res |-> ErrorHandler]
        ELSE IF hits = {} THEN [handler |-> "404 handler", res |-> NotFoundHandler]
        ELSE [handler |-> Routes[first].name, res |-> NoExchange.res]

Dispatch ==
    /\ \E method \in Methods, path \in Paths, body \in Bodies :
          LET layer == App(method, path, body)
          IN  call' = [fn |-> "app", method |-> method, path |-> path, body |-> body,
                       handler |-> layer.handler, res |-> layer.res]
    /\ UNCHANGED <<now, pending, last, authToken, loginPayload, created, deleted, vu, metrics>>

-----------------------------------------------------------------------------
(* The auth helpers of the scenarios: login, getAuthHeaders, authenticatedGet,
   authenticatedPost *)

\* JSON values: a primitive with its literal text, or an object with fields
Prim(v) == [t |-> "prim", v |-> v]

Obj(f) == [t |-> "obj", f |-> f]

\* value.key; reading a property of null or undefined throws a TypeError
GetProp(value, key) ==
    IF value.t = "prim"
    THEN IF value.v \in {"null", "undefined"} THEN [threw |-> TRUE]
         ELSE [threw |-> FALSE, value |-> Prim("undefined")]
    ELSE IF key \in DOMAIN value.f THEN [threw |-> FALSE, value |-> value.f[key]]
    ELSE [threw |-> FALSE, value |-> Prim("undefined")]

\* value?.key
GetPropOptional(value, key) ==
    IF value.t = "prim" /\ value.v \in {"null", "undefined"}
    THEN [threw |-> FALSE, value |-> Prim("undefined")]
    ELSE GetProp(value, key)

\* response bodies as the text on the wire: well-formed JSON of a value, or not
Wire(value) == [wellFormed |-> TRUE, value |-> value]

NotJson == [wellFormed |-> FALSE]

\* JSON.parse throws a SyntaxError on text that is not JSON
JsonParse(text) ==
    IF text.wellFormed THEN [threw |-> FALSE, value |-> text.value] ELSE [threw |-> TRUE]

TokenValues == {"'eyJ.payload.sig'", "''", "null"}

LoginBodies ==
    {NotJson, Wire(Prim("null")), Wire(Prim("42")), Wire(Obj([success |-> Prim("true")])),
     Wire(Obj([data |-> Prim("null")])),
     Wire(Obj([data |-> Obj([userId |-> Prim("7")])]))}
        \cup {Wire(Obj([data |-> Obj([token |-> Prim(v)])])) : v \in TokenValues}

LoginStatuses == {200, 400, 401, 500, 0}

Returned(v) == [threw |-> FALSE, value |-> v]

Thrown == [threw |-> TRUE]

\* || on a JSON primitive or object: objects are truthy
OrNull(value) ==
    IF value.t = "prim" /\ value.v \in Falsy THEN "null"
    ELSE IF value.t = "prim" THEN value.v ELSE "[object]"

\* Login with JSON.parse outside the try block
LoginUnguarded(response) ==
    IF response.status = 200
    THEN LET parsed == JsonParse(response.body)
         IN  IF parsed.threw THEN Thrown
             ELSE LET data == GetProp(parsed.value, "data")
                  IN  IF data.threw THEN Returned("null")
                      ELSE Returned(OrNull(GetPropOptional(data.value, "token").value))
    ELSE Returned("null")

\* login, from the response of http.post on
Login(response) ==
    IF response.status = 200
    THEN LET parsed == JsonParse(response.body)
         IN  IF parsed.threw THEN Returned("null")
             ELSE LET data == GetProp(parsed.value, "data")
                  IN  IF data.threw THEN Returned("null")
                      ELSE Returned(OrNull(GetPropOptional(data.value, "token").value))
    ELSE Returned("null")

CallLogin ==
    /\ \E username \in Usernames, password \in Passwords,
          status \in LoginStatuses, body \in LoginBodies :
          LET response == [status |-> status, body |-> body]
          IN  call' = [fn |-> "login",
                       payload |-> [username |-> username, password |-> password],
                       response |-> response,
                       result |-> Login(response)]
    /\ UNCHANGED <<now, pending, last, authToken, loginPayload, created, deleted, vu, metrics>>

\* { ...defaults, ...custom }: a later key replaces an earlier one whole
Spread(defaults, custom) ==
    [k \in DOMAIN defaults \cup DOMAIN custom |->
        IF k \in DOMAIN custom THEN custom[k] ELSE defaults[k]]

\* the object {}
EmptyObject == [k \in {} |-> "undefined"]

\* the token a caller holds: one returned by login, or login's null
HeldTokens == {"eyJ.payload.sig", "null"}

getAuthHeaders(token) ==
    ("Authorization" :> ("Bearer " \o token)) @@ ("Content-Type" :> "application/json")

\* the additional params of a request
RequestParams ==
    { EmptyObject,
      [tags |-> ("name" :> "users")],
      [timeout |-> ("ms" :> "60s")],
      [headers |-> ("X-Trace" :> "1")],
      [headers |-> ("Authorization" :> "Bearer other")],
      [headers |-> ("Accept" :> "text/html"), tags |-> ("name" :> "users")] }

Urls == {"http://localhost:3000/api/auth/me", "http://localhost:3000/api/users"}

RequestData == {[name |-> "'alice'"], [name |-> "'bob'", email |-> "'bob@example.com'"]}

authenticatedGet(url, token, params) ==
    [method |-> "GET", url |-> url,
     params |-> Spread([headers |-> getAuthHeaders(token)], params)]

authenticatedPost(url, data, token, params) ==
    [method |-> "POST", url |-> url, body |-> data,
     params |-> Spread([headers |-> getAuthHeaders(token)], params)]

CallAuthenticatedGet ==
    /\ \E url \in Urls, token \in HeldTokens, params \in RequestParams :
          call' = [fn |-> "authenticatedGet", token |-> token, given |-> params,
                   request |-> authenticatedGet(url, token, params)]
    /\ UNCHANGED <<now, pending, last, authToken, loginPayload, created, deleted, vu, metrics>>

CallAuthenticatedPost ==
    /\ \E url \in Urls, data \in RequestData, token \in HeldTokens,
          params \in RequestParams :
          call' = [fn |-> "authenticatedPost", token |-> token, given |-> params,
                   request |-> authenticatedPost(url, data, token, params)]
    /\ UNCHANGED <<now, pending, last, authToken, loginPayload, created, deleted, vu, metrics>>

-----------------------------------------------------------------------------
(* The shared configuration: config, thresholds, getThresholds, buildOptions,
   and the options of the threshold-validation script *)

\* String(undefined), what parseInt reads from a variable that is not set
Unset == QueryAbsent

EnvironmentValues ==
    {"undefined", "''", "'dev'", "'staging'", "'production'", "'prod'",
     "'constructor'", "'__proto__'"}

VusValues == { Unset, <<"5", "0">>, <<"0">>, <<"a", "b", "c">> }

DurationValues == {"undefined", "'5m'"}

Environments ==
    { [ENVIRONMENT |-> e, VUS |-> v, DURATION |-> d] :
         e \in EnvironmentValues, v \in VusValues, d \in DurationValues }

config(env) ==
    [environment |-> OrElse(env.ENVIRONMENT, "'dev'"),
     vus |-> NumOr(ParseInt(env.VUS), 10),
     duration |-> OrElse(env.DURATION, "'1m'")]

\* thresholds with the dev and staging latency bounds exchanged
thresholdsLaxStaging ==
    ("'dev'" :> [http_req_failed |-> <<"rate<0.1">>,
                 http_req_duration |-> <<"p(95)<500">>,
                 http_req_waiting |-> <<"p(95)<800">>,
                 checks |-> <<"rate>0.9">>,
                 iterations |-> <<"count>10">>])
    @@ ("'staging'" :> [http_req_failed |-> <<"rate<0.05">>,
                        http_req_duration |-> <<"p(95)<1000">>,
                        http_req_waiting |-> <<"p(95)<400">>,
                        checks |-> <<"rate>0.95">>,
                        iterations |-> <<"count>50">>])
    @@ ("'production'" :> [http_req_failed |-> <<"rate<0.01">>,
                           http_req_duration |-> <<"p(95)<300", "p(99)<500">>,
                           http_req_waiting |-> <<"p(95)<250">>,
                           checks |-> <<"rate>0.99">>,
                           iterations |-> <<"count>100">>])

thresholds ==
    ("'dev'" :> [http_req_failed |-> <<"rate<0.1">>,
                 http_req_duration |-> <<"p(95)<1000">>,
                 http_req_waiting |-> <<"p(95)<800">>,
                 checks |-> <<"rate>0.9">>,
                 iterations |-> <<"count>10">>])
    @@ ("'staging'" :> [http_req_failed |-> <<"rate<0.05">>,
                        http_req_duration |-> <<"p(95)<500">>,
                        http_req_waiting |-> <<"p(95)<400">>,
                        checks |-> <<"rate>0.95">>,
                        iterations |-> <<"count>50">>])
    @@ ("'production'" :> [http_req_failed |-> <<"rate<0.01">>,
                           http_req_duration |-> <<"p(95)<300", "p(99)<500">>,
                           http_req_waiting |-> <<"p(95)<250">>,
                           checks |-> <<"rate>0.99">>,
                           iterations |-> <<"count>100">>])

\* the thresholds table of the threshold-validation script
validationThresholds ==
    ("'dev'" :> [http_req_failed |-> <<"rate<0.1">>,
                 http_req_duration |-> <<"p(95)<1000">>,
                 checks |-> <<"rate>0.9">>])
    @@ ("'staging'" :> [http_req_failed |-> <<"rate<0.05">>,
                        http_req_duration |-> <<"p(95)<500">>,
                        checks |-> <<"rate>0.95">>])
    @@ ("'production'" :> [http_req_failed |-> <<"rate<0.01">>,
                           http_req_duration |-> <<"p(95)<300">>,
                           checks |-> <<"rate>0.99">>])

\* the properties every object literal inherits from Object.prototype
ObjectPrototype ==
    {"'constructor'", "'__proto__'", "'toString'", "'valueOf'", "'hasOwnProperty'",
     "'isPrototypeOf'", "'propertyIsEnumerable'", "'toLocaleString'"}

Own(value) == [kind |-> "own", value |-> value]

Inherited(key) == [kind |-> "inherited", key |-> key]

Undefined == [kind |-> "undefined"]

\* object[key]: an own property, else one found on the prototype, else undefined
PropertyOf(object, key) ==
    IF key \in DOMAIN object THEN Own(object[key])
    ELSE IF key \in ObjectPrototype THEN Inherited(key)
    ELSE Undefined

\* table[environment] || table.dev: only undefined is falsy here
LookupOrDev(table, environment) ==
    LET found == PropertyOf(table, environment)
    IN  IF found.kind = "undefined" THEN PropertyOf(table, "'dev'") ELSE found

getThresholds(env) == LookupOrDev(thresholds, config(env).environment)

\* options of the threshold-validation script
validationOptions(env) ==
    LET ENVIRONMENT == OrElse(env.ENVIRONMENT, "'dev'")
    IN  [stages |-> << [duration |-> "'30s'", target |-> 10],
                       [duration |-> "'1m'", target |-> 10],
                       [duration |-> "'30s'", target |-> 0] >>,
         thresholds |-> LookupOrDev(validationThresholds, ENVIRONMENT),
         tags |-> [environment |-> ENVIRONMENT, ci |-> "'true'"]]

CallGetThresholds ==
    /\ \E env \in Environments :
          call' = [fn |-> "getThresholds", env |-> env, result |-> getThresholds(env)]
    /\ UNCHANGED <<now, pending, last, authToken, loginPayload, created, deleted, vu, metrics>>

LoadValidationScript ==
    /\ \E env \in Environments :
          call' = [fn |-> "threshold-validation", env |-> env,
                   options |-> validationOptions(env)]
    /\ UNCHANGED <<now, pending, last, authToken, loginPayload, created, deleted, vu, metrics>>

\* an argument that is passed, or left out
Given(value) == [given |-> TRUE, value |-> value]

NotGiven == [given |-> FALSE]

CustomOptions ==
    { NotGiven, Given(EmptyObject), Given([vus |-> 50]), Given([duration |-> "'5m'"]),
      Given([thresholds |-> Own([checks |-> <<"rate>0.5">>])]),
      Given([stages |-> <<[duration |-> "'30s'", target |-> 10]>>]),
      Given([vus |-> 1, duration |-> "'10s'",
             thresholds |-> Own([http_req_failed |-> <<"rate<0.5">>])]) }

\* BuildOptions with the defaults spread over the custom settings
BuildOptionsDefaultsWin(env, custom) ==
    LET customOptions == IF custom.given THEN custom.value ELSE EmptyObject
    IN  Spread(customOptions,
               [vus |-> config(env).vus,
                duration |-> config(env).duration,
                thresholds |-> getThresholds(env)])

\* buildOptions(customOptions = {})
BuildOptions(env, custom) ==
    LET customOptions == IF custom.given THEN custom.value ELSE EmptyObject
    IN  Spread([vus |-> config(env).vus,
                duration |-> config(env).duration,
                thresholds |-> getThresholds(env)],
               customOptions)

CallBuildOptions ==
    /\ \E env \in Environments, custom \in CustomOptions :
          call' = [fn |-> "buildOptions", env |-> env, custom |-> custom,
                   result |-> BuildOptions(env, custom)]
    /\ UNCHANGED <<now, pending, last, authToken, loginPayload, created, deleted, vu, metrics>>

-----------------------------------------------------------------------------
(* The data generators: randomInt, generateDummyPayload *)

\* Math.random() draws fine enough to tell twelfths apart
FineDraws == {k * (RandDenom \div 12) : k \in 0..11} \cup {RandDenom - 1}

IntArgs == (0 - 2)..3

\* a function call that is still running
Running == call.fn = "generateDummyPayload" /\ ~call.done

\* randomInt with the upper bound left out
randomIntBelowMax(min, max, k) == FloorRandomTimes(k, max - min) + min

randomInt(min, max, k) == FloorRandomTimes(k, max - min + 1) + min

CallRandomInt ==
    /\ ~Running
    /\ \E min \in IntArgs, max \in IntArgs, k \in FineDraws :
          call' = [fn |-> "randomInt", min |-> min, max |-> max,
                   result |-> randomInt(min, max, k)]
    /\ UNCHANGED <<now, pending, last, authToken, loginPayload, created, deleted, vu, metrics>>

\* sizeInKB * 1024 for the sizes q/1024 KB
TargetSizes == {0, 1, 2, 3, 159, 160, 1024, 1107, 1108, 2048}

\* the number of characters of a positive integer in JSON
RECURSIVE DigitCount(_)
DigitCount(n) == IF n < 10 THEN 1 ELSE 1 + DigitCount(n \div 10)

\* the length of JSON.stringify of one item: {"id":N,"data":"...","timestamp":"..."}
\* with a data string of 100 characters and an ISO timestamp of 24
ItemLength(id) == 6 + DigitCount(id) + 9 + 100 + 15 + 24 + 2

RECURSIVE ItemsLength(_)
ItemsLength(items) ==
    IF items = <<>> THEN 0 ELSE ItemLength(Head(items)) + ItemsLength(Tail(items))

\* JSON.stringify(items).length: brackets, items, commas between them
StringifyLength(items) ==
    IF items = <<>> THEN 2 ELSE 2 + ItemsLength(items) + (Len(items) - 1)

\* the loop condition with the target reached 200 characters early
LoopContinuesShort(currentSize, targetSize) == currentSize + 200 < targetSize

\* while (currentSize < targetSize)
LoopContinues(currentSize, targetSize) == currentSize < targetSize

\* generateDummyPayload up to its loop
CallGenerateDummyPayload ==
    /\ ~Running
    /\ \E targetSize \in TargetSizes :
          call' = [fn |-> "generateDummyPayload", targetSize |-> targetSize,
                   items |-> <<>>, currentSize |-> 0, done |-> FALSE]
    /\ UNCHANGED <<now, pending, last, authToken, loginPayload, created, deleted, vu, metrics>>

\* one pass of the loop body
PayloadLoop ==
    /\ Running
    /\ LoopContinues(call.currentSize, call.targetSize)
    /\ LET items == Append(call.items, Len(call.items) + 1)
       IN  call' = [call EXCEPT !.items = items, !.currentSize = StringifyLength(items)]
    /\ UNCHANGED <<now, pending, last, authToken, loginPayload, created, deleted, vu, metrics>>

\* return { items }
PayloadReturn ==
    /\ Running
    /\ ~LoopContinues(call.currentSize, call.targetSize)
    /\ call' = [call EXCEPT !.done = TRUE]
    /\ UNCHANGED <<now, pending, last, authToken, loginPayload, created, deleted, vu, metrics>>

-----------------------------------------------------------------------------
(* Virtual users running the default function of a scenario script *)

VUs == 1..MaxVUs

\* a virtual user between two iterations
Idle == [pc |-> "idle", script |-> "none"]

\* the counters; for a trend, the number of its samples
Counters ==
    {"iterations", "purchase_attempts", "purchase_success", "login_attempts",
     "login_successes", "login_failures", "api_errors",
     "response_size_bytes", "processing_time_ms"}

\* before the run's script starts its first iteration: every counter at 0,
\* no sample in a rate or in the gauge
NoSamples ==
    [count |-> [c \in Counters |-> 0],
     login_success_rate |-> [passes |-> 0, fails |-> 0],
     api_error_rate |-> [passes |-> 0, fails |-> 0],
     active_users |-> 0,
     script |-> "none"]

\* counter.add(1)
Add(m, counter) == [m EXCEPT !.count[counter] = @ + 1]

\* rate.add(value)
AddRate(m, rate, value) ==
    IF value THEN [m EXCEPT ![rate].passes = @ + 1] ELSE [m EXCEPT ![rate].fails = @ + 1]

\* the response k6 hands to the script when the request did not get through
RequestFailed == Json(0, NoBody)

\* what an http call returns: the server's response, or the failure
Transport(res) == {res, RequestFailed}

\* a new iteration may start while the run lasts
RunLasts == metrics.count["iterations"] < MaxIterations

\* the virtual user is between two iterations
Free(v) == vu[v].pc \in {"idle", "ended"}

\* k6 run <script>: every virtual user of a run runs the same script
Runs(script) == metrics.script \in {"none", script}

\* if (res.body) trend.add(res.body.length)
AddSize(m, res) == IF res.body = NoBody THEN m ELSE Add(m, "response_size_bytes")

\* if (res.status >= 400) { apiErrors.add(1); apiErrorRate.add(true) }
\* else apiErrorRate.add(false)
AddApiResult(m, res) ==
    IF res.status >= 400
    THEN AddRate(Add(m, "api_errors"), "api_error_rate", TRUE)
    ELSE AddRate(m, "api_error_rate", FALSE)

\* sleep(seconds)
Sleep(seconds) == now' = now + 1000 * seconds

-----------------------------------------------------------------------------
(* The custom-metrics scenario *)

MetricsDraws == {0, RandDenom \div 10, RandDenom \div 10 + 1, RandDenom - 1}

\* Math.random() > 0.1 ? 'testpass' : 'wrongpass'
PickPassword(k) == IF 10 * k > RandDenom THEN "'testpass'" ELSE "'wrongpass'"

\* RecordLogin with a failure going to the rate only, not to its counter
RecordLoginRateOnly(m, res) ==
    IF res.status = 200
    THEN AddRate(Add(m, "login_successes"), "login_success_rate", TRUE)
    ELSE AddRate(m, "login_success_rate", FALSE)

\* the result of the login goes to the counters and to the rate
RecordLogin(m, res) ==
    IF res.status = 200
    THEN AddRate(Add(m, "login_successes"), "login_success_rate", TRUE)
    ELSE AddRate(Add(m, "login_failures"), "login_success_rate", FALSE)

\* the iteration up to the login request being sent
MetricsBegin(v) ==
    /\ Runs("custom-metrics")
    /\ Free(v)
    /\ RunLasts
    /\ \E k \in MetricsDraws :
          vu' = [vu EXCEPT ![v] = [pc |-> "login", script |-> "custom-metrics",
                                   password |-> PickPassword(k)]]
    /\ metrics' = Add(Add([metrics EXCEPT !.active_users = v,
                                          !.script = "custom-metrics"],
                          "iterations"),
                      "login_attempts")
    /\ UNCHANGED <<now, pending, last, authToken, loginPayload, created, deleted, call>>

\* from the login response to the request of the user list
MetricsLogin(v) ==
    /\ vu[v].pc = "login"
    /\ vu[v].script = "custom-metrics"
    /\ \E k \in InFlightDraws :
       \E loginRes \in Transport(AuthLogin([username |-> "'testuser'",
                                            password |-> vu[v].password], k, now)) :
          /\ metrics' = RecordLogin(AddSize(Add(metrics, "processing_time_ms"), loginRes),
                                    loginRes)
          /\ vu' = [vu EXCEPT ![v] = [pc |-> "users", script |-> "custom-metrics",
                                      password |-> vu[v].password,
                                      loginStatus |-> loginRes.status]]
    /\ Sleep(1)
    /\ UNCHANGED <<pending, last, authToken, loginPayload, created, deleted, call>>

\* from the response with the user list to the request of a random error
MetricsUsers(v) ==
    /\ vu[v].pc = "users"
    /\ vu[v].script = "custom-metrics"
    /\ \E apiRes \in Transport(GetUsers) :
          metrics' = AddApiResult(AddSize(metrics, apiRes), apiRes)
    /\ vu' = [vu EXCEPT ![v].pc = "random-error"]
    /\ Sleep(1)
    /\ UNCHANGED <<pending, last, authToken, loginPayload, created, deleted, call>>

\* from the last response to the end of the iteration
MetricsRandomError(v) ==
    /\ vu[v].pc = "random-error"
    /\ vu[v].script = "custom-metrics"
    /\ \E k \in RandomDraws :
       \E errorRes \in Transport(RandomError(k)) :
          metrics' = AddApiResult(metrics, errorRes)
    /\ vu' = [vu EXCEPT ![v].pc = "ended"]
    /\ Sleep(1)
    /\ UNCHANGED <<pending, last, authToken, loginPayload, created, deleted, call>>

CustomMetricsBegin == \E v \in VUs : MetricsBegin(v)

CustomMetricsLogin == \E v \in VUs : MetricsLogin(v)

CustomMetricsUsers == \E v \in VUs : MetricsUsers(v)

CustomMetricsRandomError == \E v \in VUs : MetricsRandomError(v)

-----------------------------------------------------------------------------
(* The user-journey scenario *)

\* productId = Math.floor(Math.random() * 10) + 1, as the text in the URL
ProductId(k) ==
    LET productId == FloorRandomTimes(k, 10) + 1
    IN  IF productId = 10 THEN <<"1", "0">> ELSE <<ToString(productId)>>

\* NoTokenHeld for a script that goes on without a token
NoTokenNever(token) == FALSE

\* !authToken
NoTokenHeld(token) == token = NoToken

\* purchaseSuccess.add(1) if the check of the status 201 passed
RecordPurchase(m, cartRes) ==
    IF cartRes.status = 201 THEN Add(m, "purchase_success") ELSE m

\* the iteration up to the login request being sent
JourneyBegin(v) ==
    /\ Runs("user-journey")
    /\ Free(v)
    /\ RunLasts
    /\ vu' = [vu EXCEPT ![v] = [pc |-> "login", script |-> "user-journey",
                                requests |-> <<"login">>]]
    /\ metrics' = Add([metrics EXCEPT !.script = "user-journey"], "iterations")
    /\ UNCHANGED <<now, pending, last, authToken, loginPayload, created, deleted, call>>

\* from the login response to the request of the list, or to the end of the
\* iteration when there is no token
JourneyLogin(v) ==
    /\ vu[v].pc = "login"
    /\ vu[v].script = "user-journey"
    /\ \E k \in InFlightDraws :
       \E loginRes \in Transport(AuthLogin([username |-> "'user_" \o ToString(v) \o "'",
                                            password |-> "'password123'"], k, now)) :
          LET token == ExtractToken(loginRes, NoToken)
          IN  IF NoTokenHeld(token)
              THEN /\ vu' = [vu EXCEPT ![v] = [pc |-> "ended", script |-> "user-journey",
                                               requests |-> vu[v].requests,
                                               loginStatus |-> loginRes.status,
                                               authToken |-> token, i |-> 0]]
                   /\ Sleep(1 + 5)
              ELSE /\ vu' = [vu EXCEPT ![v] = [pc |-> "browse", script |-> "user-journey",
                                               requests |-> Append(vu[v].requests, "browse"),
                                               loginStatus |-> loginRes.status,
                                               authToken |-> token, i |-> 0]]
                   /\ Sleep(1)
    /\ UNCHANGED <<pending, last, authToken, loginPayload, created, deleted, call, metrics>>

\* from the response with the list to the request of the first detail
JourneyBrowse(v) ==
    /\ vu[v].pc = "browse"
    /\ \E productsRes \in Transport(GetUsers) :
          vu' = [vu EXCEPT ![v].pc = "detail", ![v].i = 1,
                           ![v].requests = Append(@, "detail")]
    /\ Sleep(2)
    /\ UNCHANGED <<pending, last, authToken, loginPayload, created, deleted, call, metrics>>

\* from the response with a detail to the next request: a detail while
\* i <= 3, then the addition to the cart
JourneyDetail(v) ==
    /\ vu[v].pc = "detail"
    /\ \E k \in RandomDraws :
       \E detailRes \in Transport(GetUser(ProductId(k), now)) :
          IF vu[v].i + 1 <= 3
          THEN /\ vu' = [vu EXCEPT ![v].i = @ + 1, ![v].requests = Append(@, "detail")]
               /\ UNCHANGED metrics
          ELSE /\ vu' = [vu EXCEPT ![v].pc = "cart", ![v].i = @ + 1,
                                   ![v].requests = Append(@, "cart")]
               /\ metrics' = Add(metrics, "purchase_attempts")
    /\ Sleep(3)
    /\ UNCHANGED <<pending, last, authToken, loginPayload, created, deleted, call>>

\* from the response to the addition to the request of the own page
JourneyCart(v) ==
    /\ vu[v].pc = "cart"
    /\ \E k \in InFlightDraws :
       \E cartRes \in Transport(PostUsers([name |-> "'item_" \o ToString(now) \o "'",
                                           email |-> "'user_" \o ToString(v)
                                                       \o "@example.com'"], k, now)) :
          metrics' = RecordPurchase(metrics, cartRes)
    /\ vu' = [vu EXCEPT ![v].pc = "me", ![v].requests = Append(@, "me")]
    /\ Sleep(2)
    /\ UNCHANGED <<pending, last, authToken, loginPayload, created, deleted, call>>

\* from the response with the own page to the end of the iteration
JourneyMe(v) ==
    /\ vu[v].pc = "me"
    /\ \E myPageRes \in Transport(GetAuthMe(Bearer(vu[v].authToken), now)) :
          vu' = [vu EXCEPT ![v].pc = "ended"]
    /\ Sleep(1 + 5)
    /\ UNCHANGED <<pending, last, authToken, loginPayload, created, deleted, call, metrics>>

UserJourneyBegin == \E v \in VUs : JourneyBegin(v)

UserJourneyLogin == \E v \in VUs : JourneyLogin(v)

UserJourneyBrowse == \E v \in VUs : JourneyBrowse(v)

UserJourneyDetail == \E v \in VUs : JourneyDetail(v)

UserJourneyCart == \E v \in VUs : JourneyCart(v)

UserJourneyMe == \E v \in VUs : JourneyMe(v)

-----------------------------------------------------------------------------
(* The data-correlation scenario *)

testData ==
    << [name |-> "Yamada Taro", email |-> "yamada@example.com"],
       [name |-> "Sato Hanako", email |-> "sato@example.com"],
       [name |-> "Suzuki Ichiro", email |-> "suzuki@example.com"],
       [name |-> "Tanaka Misaki", email |-> "tanaka@example.com"],
       [name |-> "Takahashi Kenta", email |-> "takahashi@example.com"] >>

RECURSIVE PathChars(_)
\* the decimal text of an id, character by character, as it stands in a URL
PathChars(n) ==
    IF n < 10 THEN <<ToString(n)>> ELSE Append(PathChars(n \div 10), ToString(n % 10))

\* the characters of `${userId}` in a URL
UserIdChars(userId) ==
    IF userId.defined THEN PathChars(userId.id)
    ELSE <<"u", "n", "d", "e", "f", "i", "n", "e", "d">>

\* let userId;
NoUserId == [defined |-> FALSE, id |-> 0]

\* if (userId): an id was assigned and it is not 0
HasUserId(userId) == userId.defined /\ userId.id # 0

\* a user of the list picked by Math.floor(Math.random() * body.data.length)
PickListed(listRes, k) ==
    IF listRes.status = 200 /\ Len(listRes.body.data) > 0
    THEN [defined |-> TRUE,
          id |-> listRes.body.data[FloorRandomTimes(k, Len(listRes.body.data)) + 1].id]
    ELSE NoUserId

\* the creation request of Step3
CreatePayload(k, t) ==
    LET userData == testData[FloorRandomTimes(k, Len(testData)) + 1]
    IN  [name |-> "'" \o userData.name \o "_" \o ToString(t) \o "'",
         email |-> "'" \o ToString(t) \o "_" \o userData.email \o "'"]

\* draws of Math.random() for the id of a created user: the ends of the range
IdDraws == {0, RandDenom - 1}

\* the locals of an iteration at its first request
CorrelationLocals ==
    [pc |-> "list", script |-> "data-correlation",
     userId |-> NoUserId, userName |-> "undefined", userEmail |-> "undefined",
     sentAt |-> 0, createRes |-> RequestFailed, requests |-> <<"GET /api/users">>]

\* a request about the user of an id
ForUser(method, userId) == method \o " /api/users/" \o ToString(userId.id)

\* the iteration up to the request of the list being sent
CorrelationBegin(v) ==
    /\ Runs("data-correlation")
    /\ Free(v)
    /\ RunLasts
    /\ vu' = [vu EXCEPT ![v] = CorrelationLocals]
    /\ metrics' = Add([metrics EXCEPT !.script = "data-correlation"], "iterations")
    /\ UNCHANGED <<now, pending, last, authToken, loginPayload, created, deleted, call>>

\* from the response with the list to the request of the detail, or of the
\* creation when no id was picked
CorrelationList(v) ==
    /\ vu[v].pc = "list"
    /\ vu[v].script = "data-correlation"
    /\ \E k \in InFlightDraws :
       \E listRes \in Transport(GetUsers) :
          LET userId == PickListed(listRes, k)
          IN  IF HasUserId(userId)
              THEN vu' = [vu EXCEPT ![v].pc = "detail", ![v].userId = userId,
                                    ![v].requests = Append(@, ForUser("GET", userId))]
              ELSE vu' = [vu EXCEPT ![v].pc = "create", ![v].userId = userId,
                                    ![v].sentAt = now + 1000,
                                    ![v].requests = Append(@, "POST /api/users")]
    /\ Sleep(1)
    /\ UNCHANGED <<pending, last, authToken, loginPayload, created, deleted, call, metrics>>

\* from the response with the detail to the request of the creation
CorrelationDetail(v) ==
    /\ vu[v].pc = "detail"
    /\ vu[v].script = "data-correlation"
    /\ \E detailRes \in Transport(GetUser(UserIdChars(vu[v].userId), now)) :
          vu' = [vu EXCEPT ![v].pc = "create", ![v].sentAt = now + 1000,
                           ![v].requests = Append(@, "POST /api/users")]
    /\ Sleep(1)
    /\ UNCHANGED <<pending, last, authToken, loginPayload, created, deleted, call, metrics>>

\* from the response to the creation to the request of the update, or to
\* the end of the iteration when there is no id
CorrelationCreate(v) ==
    /\ vu[v].pc = "create"
    /\ \E k \in InFlightDraws, kk \in IdDraws :
       \E createRes \in Transport(PostUsers(CreatePayload(k, vu[v].sentAt), kk, now)) :
          LET extracted == ExtractUser(createRes, NoUser)
              userId == IF createRes.status = 201
                        THEN [defined |-> TRUE, id |-> extracted.userId]
                        ELSE vu[v].userId
          IN  IF HasUserId(userId)
              THEN /\ vu' = [vu EXCEPT ![v].pc = "update", ![v].userId = userId,
                                       ![v].userName = extracted.userName,
                                       ![v].userEmail = extracted.userEmail,
                                       ![v].createRes = createRes,
                                       ![v].requests = Append(@, ForUser("PUT", userId))]
                   /\ Sleep(1)
              ELSE /\ vu' = [vu EXCEPT ![v].pc = "ended", ![v].userId = userId,
                                       ![v].userName = extracted.userName,
                                       ![v].userEmail = extracted.userEmail,
                                       ![v].createRes = createRes]
                   /\ Sleep(1 + 2)
    /\ UNCHANGED <<pending, last, authToken, loginPayload, created, deleted, call, metrics>>

\* `${userName}_updated` and `updated_${userEmail}`
UpdatePayload(userName, userEmail) ==
    [name |-> "'" \o userName \o "_updated'", email |-> "'updated_" \o userEmail \o "'"]

\* from the response to the update to the request of the deletion
CorrelationUpdate(v) ==
    /\ vu[v].pc = "update"
    /\ \E updateRes \in Transport(PutUser(UserIdChars(vu[v].userId),
                                          UpdatePayload(vu[v].userName, vu[v].userEmail),
                                          now)) :
          vu' = [vu EXCEPT ![v].pc = "delete",
                           ![v].requests = Append(@, ForUser("DELETE", vu[v].userId))]
    /\ Sleep(1)
    /\ UNCHANGED <<pending, last, authToken, loginPayload, created, deleted, call, metrics>>

\* from the response to the deletion to the end of the iteration
CorrelationDelete(v) ==
    /\ vu[v].pc = "delete"
    /\ \E deleteRes \in Transport(DeleteUser(UserIdChars(vu[v].userId))) :
          vu' = [vu EXCEPT ![v].pc = "ended"]
    /\ Sleep(1 + 2)
    /\ UNCHANGED <<pending, last, authToken, loginPayload, created, deleted, call, metrics>>

DataCorrelationBegin == \E v \in VUs : CorrelationBegin(v)

DataCorrelationList == \E v \in VUs : CorrelationList(v)

DataCorrelationDetail == \E v \in VUs : CorrelationDetail(v)

DataCorrelationCreate == \E v \in VUs : CorrelationCreate(v)

DataCorrelationUpdate == \E v \in VUs : CorrelationUpdate(v)

DataCorrelationDelete == \E v \in VUs : CorrelationDelete(v)

-----------------------------------------------------------------------------
(* The JWT authentication scenario *)

\* the locals of an iteration at its first request
AuthenticationLocals ==
    [pc |-> "login", script |-> "authentication", authToken |-> NoToken,
     loginRes |-> RequestFailed, meRes |-> RequestFailed, thrown |-> FALSE]

\* JSON.parse(r.body).success of a response without a body throws
ParseThrows(res) == res.body = NoBody

\* 'status is 200'
StatusIs200(res) == res.status = 200

\* 'user info obtained': body.success && body.data && body.data.userId
UserInfoObtained(res) ==
    /\ res.body.success
    /\ "data" \in DOMAIN res.body
    /\ res.body.data.userId # 0

\* the iteration up to the login request being sent
AuthenticationBegin(v) ==
    /\ Runs("authentication")
    /\ Free(v)
    /\ RunLasts
    /\ vu' = [vu EXCEPT ![v] = AuthenticationLocals]
    /\ metrics' = Add([metrics EXCEPT !.script = "authentication"], "iterations")
    /\ UNCHANGED <<now, pending, last, authToken, loginPayload, created, deleted, call>>

\* from the login response to the next request: GET /api/auth/me with the
\* token, or with the invalid token when none is held
AuthenticationLogin(v) ==
    /\ vu[v].pc = "login"
    /\ vu[v].script = "authentication"
    /\ \E k \in RandomDraws :
       \E loginRes \in Transport(AuthLogin([username |-> "'testuser'",
                                            password |-> "'testpass'"], k, now)) :
          LET token == ExtractToken(loginRes, NoToken)
          IN  IF ParseThrows(loginRes)
              THEN /\ vu' = [vu EXCEPT ![v].pc = "ended", ![v].loginRes = loginRes,
                                       ![v].thrown = TRUE]
                   /\ UNCHANGED now
              ELSE IF NoTokenHeld(token)
              THEN /\ vu' = [vu EXCEPT ![v].pc = "invalid", ![v].loginRes = loginRes]
                   /\ Sleep(1 + 1)
              ELSE /\ vu' = [vu EXCEPT ![v].pc = "me", ![v].loginRes = loginRes,
                                       ![v].authToken = token]
                   /\ Sleep(1)
    /\ UNCHANGED <<pending, last, authToken, loginPayload, created, deleted, call, metrics>>

\* from the response to the authenticated request to the request with the
\* invalid token
AuthenticationMe(v) ==
    /\ vu[v].pc = "me"
    /\ vu[v].script = "authentication"
    /\ \E meRes \in Transport(GetAuthMe(Bearer(vu[v].authToken), now)) :
          IF ParseThrows(meRes)
          THEN /\ vu' = [vu EXCEPT ![v].pc = "ended", ![v].meRes = meRes,
                                   ![v].thrown = TRUE]
               /\ UNCHANGED now
          ELSE /\ vu' = [vu EXCEPT ![v].pc = "invalid", ![v].meRes = meRes]
               /\ Sleep(1)
    /\ UNCHANGED <<pending, last, authToken, loginPayload, created, deleted, call, metrics>>

\* from the response to the invalid token to the end of the iteration
AuthenticationInvalid(v) ==
    /\ vu[v].pc = "invalid"
    /\ \E invalidRes \in Transport(GetAuthMe(Bearer(<<"invalid-token">>), now)) :
          vu' = [vu EXCEPT ![v].pc = "ended"]
    /\ Sleep(1)
    /\ UNCHANGED <<pending, last, authToken, loginPayload, created, deleted, call, metrics>>

JwtAuthenticationBegin == \E v \in VUs : AuthenticationBegin(v)

JwtAuthenticationLogin == \E v \in VUs : AuthenticationLogin(v)

JwtAuthenticationMe == \E v \in VUs : AuthenticationMe(v)

JwtAuthenticationInvalid == \E v \in VUs : AuthenticationInvalid(v)

-----------------------------------------------------------------------------
(* The server as a whole: every response it gives *)

GetHealth(t) == Json(200, [status |-> "ok", timestamp |-> IsoNow(t)])

\* Math.floor(Math.random() * 1000000), in two steps of a factor 1000 each
UploadSize(k) ==
    ((k * 1000) \div RandDenom) * 1000 + (((k * 1000) % RandDenom) * 1000) \div RandDenom

Upload(k, t) ==
    Json(200, [success |-> TRUE,
               data |-> [filename |-> "'uploaded-file.txt'",
                         size |-> UploadSize(k),
                         uploadedAt |-> IsoNow(t)]])

\* a response, with the layer that gave it and the method of the request
Answer(route, method, res) == [route |-> route, method |-> method, res |-> res]

\* the tokens a client can hold: none, or one of a login just answered
Held(t) ==
    {NoToken}
      \cup {AuthLogin([username |-> "'alice'", password |-> "'secret'"], k, t).body.data.token :
              k \in RandomDraws}

\* the responses of the route handlers to a GET, POST, PUT or DELETE request
Handled(t) ==
    {Answer("GET /health", "GET", GetHealth(t))}
      \cup {Answer("GET /api/users", "GET", GetUsers)}
      \cup {Answer("GET /api/users/:id", "GET", GetUser(id, t)) : id \in UserIdParams}
      \cup {Answer("POST /api/users", "POST", PostUsers([name |-> name, email |-> email], k, t)) :
              name \in Names, email \in Emails, k \in RandomDraws}
      \cup {Answer("PUT /api/users/:id", "PUT", PutUser(id, [name |-> name, email |-> email], t)) :
              id \in UserIdParams, name \in Names, email \in Emails}
      \cup {Answer("DELETE /api/users/:id", "DELETE", DeleteUser(id)) : id \in UserIdParams}
      \cup {Answer("POST /api/auth/login", "POST",
                   AuthLogin([username |-> username, password |-> password], k, t)) :
              username \in Usernames, password \in Passwords, k \in RandomDraws}
      \cup UNION {{Answer("GET /api/auth/me", "GET", GetAuthMe(h, t)) : h \in AuthHeaders(held, t)} :
                    held \in Held(t)}
      \cup {Answer("GET /api/delay/:ms", "GET", DelayRespond(DelayAwait(ms, t), t)) :
              ms \in DelayParams}
      \cup {Answer("GET /api/random-delay", "GET", RandomDelayRespond(RandomDelayAwait(k, t), t)) :
              k \in RandomDraws}
      \cup {Answer("GET /api/status/:code", "GET", GetStatus(code)) : code \in StatusParams}
      \cup {Answer("GET /api/random-error", "GET", RandomError(k)) : k \in RandomDraws}
      \cup {Answer("GET /api/large-payload", "GET", LargePayload(size, t)) : size \in SizeParams}
      \cup {Answer("POST /api/upload", "POST", Upload(k, t)) : k \in RandomDraws}
      \cup {Answer("404 handler", "POST", NotFoundHandler)}
      \cup {Answer("error handler", "POST", ErrorHandler)}

\* the response to a HEAD request is the one to the GET request, without
\* its body
HeadOf(a) == Answer(a.route, "HEAD", Json(a.res.status, NoBody))

\* every response of the server
Answers(t) ==
    Handled(t)
      \cup {HeadOf(a) : a \in {b \in Handled(t) : b.method = "GET"}}
      \cup {Answer("cors", "OPTIONS", Preflight)}

\* the server answers a request
Serve ==
    /\ \E a \in Answers(now) :
          last' = Exchange(a.route, [method |-> a.method], a.res, now, now)
    /\ UNCHANGED <<now, pending, authToken, loginPayload, created, deleted, call, vu, metrics>>

-----------------------------------------------------------------------------

Init ==
    /\ now = 0
    /\ pending = {}
    /\ last = NoExchange
    /\ authToken = NoToken
    /\ loginPayload = NoLogin
    /\ created = NoUser
    /\ deleted = {}
    /\ call = NoCall
    /\ vu = [v \in VUs |-> Idle]
    /\ metrics = NoSamples

NextRest ==
    Tick \/ PostApiUsers \/ GetApiStatus \/ GetApiRandomError \/ GetApiLargePayload

SpecRest == Init /\ [][NextRest]_vars

NextAuth == Tick \/ PostApiAuthLogin \/ GetApiAuthMe

SpecAuth == Init /\ [][NextAuth]_vars

NextDelay ==
    \/ Tick
    \/ GetApiDelay
    \/ GetApiDelayResume
    \/ GetApiRandomDelay
    \/ GetApiRandomDelayResume

SpecDelay == Init /\ [][NextDelay]_vars

\* the user handlers read the clock only for createdAt and updatedAt
\* delayed requests in flight side by side with an immediate one
NextInFlight ==
    \/ Tick
    \/ GetApiDelayInFlight
    \/ GetApiDelayResume
    \/ GetApiRandomDelayInFlight
    \/ GetApiRandomDelayResume
    \/ GetApiRandomError

SpecInFlight == Init /\ [][NextInFlight]_vars

NextHelpers ==
    \/ CallLogin
    \/ CallAuthenticatedGet
    \/ CallAuthenticatedPost

SpecHelpers == Init /\ [][NextHelpers]_vars

NextUtils ==
    \/ CallRandomInt
    \/ CallGenerateDummyPayload
    \/ PayloadLoop
    \/ PayloadReturn

SpecUtils == Init /\ [][NextUtils]_vars

\* a function that was called runs to its return
SpecUtilsFair == SpecUtils /\ WF_vars(PayloadLoop) /\ WF_vars(PayloadReturn)

NextConfig ==
    \/ CallGetThresholds
    \/ LoadValidationScript
    \/ CallBuildOptions

SpecConfig == Init /\ [][NextConfig]_vars

NextRouting == Dispatch

SpecRouting == Init /\ [][NextRouting]_vars

NextUsers ==
    \/ GetApiUsers
    \/ GetApiUser
    \/ PostApiUsers
    \/ PutApiUser
    \/ DeleteApiUser

SpecUsers == Init /\ [][NextUsers]_vars

NextMetrics ==
    \/ CustomMetricsBegin
    \/ CustomMetricsLogin
    \/ CustomMetricsUsers
    \/ CustomMetricsRandomError

SpecMetrics == Init /\ [][NextMetrics]_vars

NextJourney ==
    \/ UserJourneyBegin
    \/ UserJourneyLogin
    \/ UserJourneyBrowse
    \/ UserJourneyDetail
    \/ UserJourneyCart
    \/ UserJourneyMe

SpecJourney == Init /\ [][NextJourney]_vars

\* one run of the user-journey script or of the custom-metrics script
NextScenarios == NextJourney \/ NextMetrics

SpecScenarios == Init /\ [][NextScenarios]_vars

NextCorrelation ==
    \/ DataCorrelationBegin
    \/ DataCorrelationList
    \/ DataCorrelationDetail
    \/ DataCorrelationCreate
    \/ DataCorrelationUpdate
    \/ DataCorrelationDelete

SpecCorrelation == Init /\ [][NextCorrelation]_vars

NextAuthentication ==
    \/ JwtAuthenticationBegin
    \/ JwtAuthenticationLogin
    \/ JwtAuthenticationMe
    \/ JwtAuthenticationInvalid

SpecAuthentication == Init /\ [][NextAuthentication]_vars

NextServer == Tick \/ Serve

SpecServer == Init /\ [][NextServer]_vars

Next == NextRest \/ NextAuth \/ NextDelay \/ NextUsers \/ NextInFlight \/ NextRouting
        \/ NextHelpers \/ NextConfig \/ NextUtils \/ NextScenarios \/ NextCorrelation
        \/ NextAuthentication \/ NextServer

Spec == Init /\ [][Next]_vars

-----------------------------------------------------------------------------
(* Vocabulary of the properties *)

\* a field that is absent or empty
Missing(v) == v \in {"undefined", "null", "''"}

\* a field that holds a non-empty string
IsText(v) ==
    v \in {"'alice'", "'bob'", "'wrong'", "'secret'", "'admin'", "'alice@example.com'"}

DigitChar(d) ==
    CASE d = 0 -> "0" [] d = 1 -> "1" [] d = 2 -> "2" [] d = 3 -> "3" [] d = 4 -> "4"
      [] d = 5 -> "5" [] d = 6 -> "6" [] d = 7 -> "7" [] d = 8 -> "8" [] d = 9 -> "9"

RECURSIVE Digits(_)
Digits(n) ==
    IF n < 10 THEN <<DigitChar(n)>> ELSE Digits(n \div 10) \o <<DigitChar(n % 10)>>

\* the decimal text of an integer, as a client writes it into the path
ToStr(n) == IF n < 0 THEN <<"-">> \o Digits(0 - n) ELSE Digits(n)

\* body[f] = v for a body that has the field f
Field(body, f, v) == f \in DOMAIN body /\ body[f] = v

LastIs(route) == last.route = route

-----------------------------------------------------------------------------
(* C1, C2: POST /api/users *)

\* C1: every POST /api/users whose body carries a name and an email (both
\* non-empty strings) is answered 201 with success true and a data object whose
\* id is a number (0..9999) and whose name and email are the submitted ones.
C1_UserCreated ==
    (LastIs("POST /api/users") /\ IsText(last.req.body.name) /\ IsText(last.req.body.email))
        => /\ last.res.status = 201
           /\ Field(last.res.body, "success", TRUE)
           /\ "data" \in DOMAIN last.res.body
           /\ last.res.body.data.id \in 0..9999
           /\ last.res.body.data.name = last.req.body.name
           /\ last.res.body.data.email = last.req.body.email

C1_Witness ==
    /\ LastIs("POST /api/users")
    /\ IsText(last.req.body.name) /\ IsText(last.req.body.email)
    /\ last.res.status = 201
    /\ last.res.body.data.id = 9999

\* C2: every POST /api/users in which name or email is missing (absent, null
\* or empty) is answered 400 with success false and no data object.
C2_UserRejected ==
    (LastIs("POST /api/users")
        /\ (Missing(last.req.body.name) \/ Missing(last.req.body.email)))
        => /\ last.res.status = 400
           /\ Field(last.res.body, "success", FALSE)
           /\ "data" \notin DOMAIN last.res.body

C2_Witness ==
    /\ LastIs("POST /api/users")
    /\ IsText(last.req.body.name) /\ Missing(last.req.body.email)
    /\ last.res.status = 400

-----------------------------------------------------------------------------
(* C3, C4: POST /api/auth/login *)

HasToken(res) ==
    /\ "data" \in DOMAIN res.body
    /\ "token" \in DOMAIN res.body.data
    /\ res.body.data.token # <<>>

\* C3 as stated: for every request body, the password 'wrong' is answered 401
\* and any other non-empty password 200 with a non-empty token.
C3_AsStated ==
    LastIs("POST /api/auth/login")
        => /\ last.req.body.password = "'wrong'" => last.res.status = 401
           /\ (IsText(last.req.body.password) /\ last.req.body.password # "'wrong'")
                 => (last.res.status = 200 /\ HasToken(last.res))

\* C3 amended: for every request body that carries a non-empty username, the
\* password 'wrong' is answered 401 without a token and any other non-empty
\* password 200 with a non-empty token.
C3_LoginByPassword ==
    (LastIs("POST /api/auth/login") /\ IsText(last.req.body.username))
        => /\ last.req.body.password = "'wrong'"
                 => (last.res.status = 401 /\ ~HasToken(last.res))
           /\ (IsText(last.req.body.password) /\ last.req.body.password # "'wrong'")
                 => (last.res.status = 200 /\ HasToken(last.res))

C3_Witness ==
    /\ LastIs("POST /api/auth/login")
    /\ IsText(last.req.body.username)
    /\ last.req.body.password = "'secret'"
    /\ last.res.status = 200
    /\ HasToken(last.res)

\* C4: whenever username or password is missing or empty, the login is answered
\* 400 with success false and no token, whatever the other field contains.
C4_CredentialsRequired ==
    (LastIs("POST /api/auth/login")
        /\ (Missing(last.req.body.username) \/ Missing(last.req.body.password)))
        => /\ last.res.status = 400
           /\ Field(last.res.body, "success", FALSE)
           /\ ~HasToken(last.res)

C4_Witness ==
    /\ LastIs("POST /api/auth/login")
    /\ Missing(last.req.body.username)
    /\ last.req.body.password = "'wrong'"
    /\ last.res.status = 400

-----------------------------------------------------------------------------
(* C5, C6: GET /api/auth/me *)

\* the last request was GET /api/auth/me carrying the token of the client's login
MeWithLoginToken ==
    /\ LastIs("GET /api/auth/me")
    /\ authToken # NoToken
    /\ last.req.authorization = Bearer(authToken)

\* the answer 200 with the username of the login and the userId of the token
MeAnswersLogin ==
    /\ last.res.status = 200
    /\ "data" \in DOMAIN last.res.body
    /\ last.res.body.data.username = loginPayload.username
    /\ last.res.body.data.userId = authToken[2].userId

\* a token that is not three segments
Malformed(token) == Len(token) # 3

MalformedIsRefused ==
    (LastIs("GET /api/auth/me")
        /\ last.req.authorization.present
        /\ last.req.authorization.first7 = "Bearer "
        /\ Malformed(last.req.authorization.rest))
        => last.res.status = 401

\* C5 as stated: a GET /api/auth/me carrying a token issued by a login for
\* username u is answered 200 with username u, whenever it follows the login.
C5_AsStated ==
    /\ MeWithLoginToken => MeAnswersLogin
    /\ MalformedIsRefused

\* C5 amended: a GET /api/auth/me carrying a token issued by a login for
\* username u is answered 200 with username u and the userId of the token when
\* it is received less than 3600 clock seconds after the login, and 401 from
\* then on; a malformed token is answered 401.
C5_LoginThenMe ==
    /\ (MeWithLoginToken /\ last.receivedAt \div 1000 < loginPayload.at + 3600)
          => MeAnswersLogin
    /\ (MeWithLoginToken /\ last.receivedAt \div 1000 >= loginPayload.at + 3600)
          => last.res.status = 401
    /\ MalformedIsRefused

C5_Witness ==
    /\ MeWithLoginToken
    /\ last.receivedAt = 3599999
    /\ loginPayload.at = 0
    /\ MeAnswersLogin

\* the third segment is the server's signature over the first two
SignedByServer(token) ==
    Len(token) = 3 /\ token[3] = Hmac(token[1], token[2], JWT_SECRET)

\* C6: GET /api/auth/me is answered 401 with success false, never 200, whenever
\* the Authorization header is absent, does not start with 'Bearer ', or carries
\* a token whose signature does not verify against the server secret.
C6_Unauthorized ==
    (LastIs("GET /api/auth/me")
        /\ (\/ ~last.req.authorization.present
            \/ last.req.authorization.first7 # "Bearer "
            \/ ~SignedByServer(last.req.authorization.rest)))
        => /\ last.res.status = 401
           /\ Field(last.res.body, "success", FALSE)

C6_Witness ==
    /\ LastIs("GET /api/auth/me")
    /\ authToken # NoToken
    /\ last.req.authorization = Bearer(Tampered(authToken))
    /\ last.res.status = 401

-----------------------------------------------------------------------------
(* C7, C8: the delayed responses *)

\* the integers a client asks for
RequestedMs == {0 - 5, 0, 100, 10000, 60000}

C8_RandomDelay ==
    /\ \A p \in pending :
          p.timer.route = "GET /api/random-delay"
              => /\ p.timer.delay \in 100..1999
                 /\ p.timer.dueAt = p.timer.receivedAt + p.timer.delay
    /\ LastIs("GET /api/random-delay")
          => /\ last.req.delay \in 100..1999
             /\ last.sentAt >= last.receivedAt + last.req.delay
             /\ last.res.status = 200
             /\ last.res.body.data.delay = last.req.delay

C8_Witness ==
    /\ LastIs("GET /api/random-delay")
    /\ last.req.delay = 1999
    /\ last.receivedAt = 1
    /\ last.sentAt = 10000

-----------------------------------------------------------------------------
(* C9, C10: the error endpoints *)

\* the integers a client asks for
RequestedCodes == {0 - 1, 0, 99, 101, 200, 201, 204, 304, 399, 400, 404, 503, 999, 1000}

EchoesCode(code) ==
    /\ last.res.status = code
    /\ Field(last.res.body, "statusCode", code)
    /\ Field(last.res.body, "success", code < 400)

\* C9 as stated: for every requested code the HTTP status and the body's
\* statusCode are that code, and success is true exactly when it is below 400.
C9_AsStated ==
    LastIs("GET /api/status/:code")
        => \A code \in RequestedCodes : last.req.code = ToStr(code) => EchoesCode(code)

\* C9 amended: for every requested code from 200 to 999 other than 204, 205
\* and 304, the HTTP status and the body's statusCode are that code and success
\* is true exactly when it is below 400; a requested code of 0 and one that
\* holds no number are answered as 200.
C9_StatusEchoed ==
    LastIs("GET /api/status/:code")
        => /\ \A code \in RequestedCodes :
                 (last.req.code = ToStr(code) /\ code \in 200..999
                     /\ code \notin {204, 205, 304})
                     => EchoesCode(code)
           /\ last.req.code \in {ToStr(0), <<"a", "b", "c">>} => EchoesCode(200)

C9_Witness ==
    /\ LastIs("GET /api/status/:code")
    /\ last.req.code = ToStr(400)
    /\ EchoesCode(400)

\* C10: every GET /api/random-error response is 500 with success false when its
\* random draw is below 0.2 and 200 with success true otherwise, whatever
\* happened before.
C10_RandomError ==
    LastIs("GET /api/random-error")
        => \/ /\ 5 * last.req.random < RandDenom
              /\ last.res.status = 500
              /\ Field(last.res.body, "success", FALSE)
           \/ /\ 5 * last.req.random >= RandDenom
              /\ last.res.status = 200
              /\ Field(last.res.body, "success", TRUE)

C10_Witness ==
    /\ LastIs("GET /api/random-error")
    /\ 5 * last.req.random = RandDenom
    /\ last.res.status = 200

-----------------------------------------------------------------------------
(* C11: GET /api/large-payload *)

\* the characters of a path or query parameter as one text
RECURSIVE Text(_)
Text(s) == IF s = <<>> THEN "" ELSE Head(s) \o Text(Tail(s))

RequestedSizes == {0, 1, 3, 10}

HasItems(res, n) ==
    /\ Field(res.body, "count", n)
    /\ Len(res.body.data) = n
    /\ \A i \in 1..n : res.body.data[i].id = i

\* C11: for every size N given in the query, GET /api/large-payload?size=N
\* returns exactly N items (count N, data of length N, item ids 1..N in order),
\* and 100 items when no size is given.
C11_AsStated ==
    LastIs("GET /api/large-payload")
        => /\ \A n \in RequestedSizes :
                 last.req.size = ToStr(n) => HasItems(last.res, n)
           /\ last.req.size = QueryAbsent => HasItems(last.res, 100)

-----------------------------------------------------------------------------
(* C12, C14, C15: the user routes *)

FixedEmails == <<"'tanaka@example.com'", "'sato@example.com'", "'suzuki@example.com'">>

FixedList(res) ==
    /\ res.status = 200
    /\ Len(res.body.data) = 3
    /\ \A i \in 1..3 : res.body.data[i].id = i /\ res.body.data[i].email = FixedEmails[i]

SomeCreated == created # NoUser

AskedForDeleted == LastIs("GET /api/users/:id") /\ ParseInt(last.req.id) \in deleted

AskedForCreated ==
    /\ LastIs("GET /api/users/:id")
    /\ SomeCreated
    /\ ParseInt(last.req.id) = Num(created.userId)

\* C12: whatever POST, PUT and DELETE requests on the users came before,
\* GET /api/users answers the same fixed list of 3 users, GET /api/users/:id
\* answers 200 for an id whose deletion was acknowledged, and asking for a
\* created user's id does not give back the name and email that were stored.
C12_Stateless ==
    /\ LastIs("GET /api/users") => FixedList(last.res)
    /\ AskedForDeleted
          => last.res.status = 200 /\ Field(last.res.body, "success", TRUE)
    /\ AskedForCreated
          => /\ last.res.body.data.name # created.userName
             /\ last.res.body.data.email # created.userEmail

C12_Witness ==
    /\ AskedForDeleted
    /\ AskedForCreated
    /\ last.res.status = 200

NameFor(id) == "'user" \o Text(id) \o "'"

EmailFor(id) == "'user" \o Text(id) \o "@example.com'"

\* data.id is the number the path names
IdEchoed(res, id) ==
    /\ "data" \in DOMAIN res.body
    /\ ~res.body.data.id.nan
    /\ ToStr(res.body.data.id.val) = id

\* C14: for every id, GET /api/users/:id answers 200 with success true and a
\* user whose data.id is the requested id and whose name and email are derived
\* from that id.
C14_AsStated ==
    LastIs("GET /api/users/:id")
        => /\ last.res.status = 200
           /\ Field(last.res.body, "success", TRUE)
           /\ IdEchoed(last.res, last.req.id)
           /\ last.res.body.data.name = NameFor(last.req.id)
           /\ last.res.body.data.email = EmailFor(last.req.id)

\* C15: PUT /api/users/:id always answers 200 with data.id the path id and with
\* the submitted name and email, each replaced by the value synthesized from
\* the id only when it is not submitted; DELETE /api/users/:id always answers
\* 200 with success true and a message naming that id.
C15_AsStated ==
    /\ LastIs("PUT /api/users/:id")
          => /\ last.res.status = 200
             /\ IdEchoed(last.res, last.req.id)
             /\ last.res.body.data.name =
                   IF last.req.body.name = "undefined" THEN NameFor(last.req.id)
                   ELSE last.req.body.name
             /\ last.res.body.data.email =
                   IF last.req.body.email = "undefined" THEN EmailFor(last.req.id)
                   ELSE last.req.body.email
    /\ LastIs("DELETE /api/users/:id")
          => /\ last.res.status = 200
             /\ Field(last.res.body, "success", TRUE)
             /\ last.res.body.message
                   = "'user ID " \o Text(last.req.id) \o " deleted'"

-----------------------------------------------------------------------------
(* C13: requests in flight side by side *)

Resumes(p) == DelayResume(p) \/ RandomDelayResume(p)

\* the response to p is made of p's own request
AnswersOwn(p) ==
    /\ last'.req = p.timer
    /\ last'.receivedAt = p.timer.receivedAt
    /\ last'.res.status = 200
    /\ p.timer.route = "GET /api/delay/:ms"
          => /\ last'.res.body.data.requestedDelay = p.timer.delayMs
             /\ last'.res.body.data.actualDelay = p.timer.delay
    /\ p.timer.route = "GET /api/random-delay"
          => last'.res.body.data.delay = p.timer.delay

\* C13: under every interleaving, a request whose own timer has run out can be
\* answered whatever else is pending, an immediate request can be answered
\* while delayed ones are pending, and every step either leaves a pending
\* request exactly as it was or answers it from its own request alone.
C13_Independent ==
    [][ /\ \A p \in pending : now >= p.timer.dueAt => ENABLED Resumes(p)
        /\ pending # {} => ENABLED GetApiRandomError
        /\ \A p \in pending :
              \/ p \in pending'
              \/ pending' = pending \ {p} /\ AnswersOwn(p) ]_vars

\* a request is answered while another, received no later, still waits for
\* its timer
C13_Witness ==
    \E p \in pending :
        /\ LastIs("GET /api/delay/:ms")
        /\ last.receivedAt >= p.timer.receivedAt
        /\ p.timer.route = "GET /api/random-delay"
        /\ now < p.timer.dueAt
        /\ last.sentAt = now

-----------------------------------------------------------------------------
(* C16: the 404 handler *)

\* the route table of the specification
DefinedRoutes ==
    { <<"GET", <<"health">>>>, <<"GET", <<"api", "users">>>>,
      <<"GET", <<"api", "users", ":id">>>>, <<"POST", <<"api", "users">>>>,
      <<"PUT", <<"api", "users", ":id">>>>, <<"DELETE", <<"api", "users", ":id">>>>,
      <<"POST", <<"api", "auth", "login">>>>, <<"GET", <<"api", "auth", "me">>>>,
      <<"GET", <<"api", "delay", ":ms">>>>, <<"GET", <<"api", "random-delay">>>>,
      <<"GET", <<"api", "status", ":code">>>>, <<"GET", <<"api", "random-error">>>>,
      <<"GET", <<"api", "large-payload">>>>, <<"POST", <<"api", "upload">>>> }

Fits(pattern, path) ==
    /\ Len(pattern) = Len(path)
    /\ \A i \in 1..Len(pattern) :
          pattern[i] = path[i] \/ (pattern[i] \in {":id", ":ms", ":code"} /\ path[i] # "")

Defined(method, path) ==
    \E r \in DefinedRoutes : r[1] = method /\ Fits(r[2], path)

Dispatched == call.fn = "app"

Gets404 ==
    /\ call.handler = "404 handler"
    /\ call.res.status = 404
    /\ Field(call.res.body, "success", FALSE)

-----------------------------------------------------------------------------
(* C17, C18: the auth helpers *)

\* the response is 200 with a parseable body that contains a data.token
CarriesToken(response) ==
    /\ response.status = 200
    /\ response.body.wellFormed
    /\ response.body.value.t = "obj"
    /\ "data" \in DOMAIN response.body.value.f
    /\ response.body.value.f.data.t = "obj"
    /\ "token" \in DOMAIN response.body.value.f.data.f
    /\ ~Missing(response.body.value.f.data.f.token.v)

C18_AsStated ==
    call.fn \in {"authenticatedGet", "authenticatedPost"}
        => /\ "headers" \in DOMAIN call.request.params
           /\ "Authorization" \in DOMAIN call.request.params.headers
           /\ call.request.params.headers["Authorization"] = "Bearer " \o call.token

-----------------------------------------------------------------------------
(* C19, C20: the shared configuration *)

NamedEnvironments == {"'dev'", "'staging'", "'production'"}

ThresholdsFor(table, environment) ==
    IF environment \in NamedEnvironments
    THEN [kind |-> "own", value |-> table[environment]]
    ELSE [kind |-> "own", value |-> table["'dev'"]]

\* C19: the thresholds used are those of the environment named by ENVIRONMENT
\* when it is dev, staging or production and the dev thresholds for every other
\* value and when ENVIRONMENT is unset, both for getThresholds() and for the
\* options of the threshold-validation script.
C19_AsStated ==
    /\ call.fn = "getThresholds"
          => call.result = ThresholdsFor(thresholds, call.env.ENVIRONMENT)
    /\ call.fn = "threshold-validation"
          => call.options.thresholds
                = ThresholdsFor(validationThresholds, call.env.ENVIRONMENT)

\* the custom settings of the call, none when the argument is left out
CustomOf(c) == IF c.custom.given THEN c.custom.value ELSE [k \in {} |-> "undefined"]

DefaultKeys == {"vus", "duration", "thresholds"}

\* C20: buildOptions(customOptions) holds config.vus, config.duration and
\* getThresholds() under vus, duration and thresholds for each of these keys
\* that customOptions does not have, and the customOptions value for every key
\* it has; there are no other keys.
C20_BuildOptions ==
    call.fn = "buildOptions"
        => LET custom == CustomOf(call)
               result == call.result
           IN  /\ DOMAIN result = DefaultKeys \cup DOMAIN custom
               /\ \A k \in DOMAIN custom : result[k] = custom[k]
               /\ "vus" \notin DOMAIN custom => result["vus"] = config(call.env).vus
               /\ "duration" \notin DOMAIN custom
                     => result["duration"] = config(call.env).duration
               /\ "thresholds" \notin DOMAIN custom
                     => result["thresholds"] = getThresholds(call.env)

C20_Witness ==
    /\ call.fn = "buildOptions"
    /\ call.custom = [given |-> TRUE, value |-> [vus |-> 50]]
    /\ call.env.VUS = <<"a", "b", "c">>
    /\ call.result["vus"] = 50
    /\ call.result["duration"] = "'1m'"

-----------------------------------------------------------------------------
(* C21: strictness of the thresholds *)

\* a threshold expression: aggregate, comparison and limit in thousandths
Expr(agg, op, milli) == [agg |-> agg, op |-> op, milli |-> milli]

ThresholdExpr(text) ==
    CASE text = "rate<0.1" -> Expr("rate", "<", 100)
      [] text = "rate<0.05" -> Expr("rate", "<", 50)
      [] text = "rate<0.01" -> Expr("rate", "<", 10)
      [] text = "rate>0.9" -> Expr("rate", ">", 900)
      [] text = "rate>0.95" -> Expr("rate", ">", 950)
      [] text = "rate>0.99" -> Expr("rate", ">", 990)
      [] text = "p(95)<1000" -> Expr("p(95)", "<", 1000000)
      [] text = "p(95)<800" -> Expr("p(95)", "<", 800000)
      [] text = "p(95)<500" -> Expr("p(95)", "<", 500000)
      [] text = "p(95)<400" -> Expr("p(95)", "<", 400000)
      [] text = "p(95)<300" -> Expr("p(95)", "<", 300000)
      [] text = "p(95)<250" -> Expr("p(95)", "<", 250000)
      [] text = "p(99)<500" -> Expr("p(99)", "<", 500000)
      [] text = "count>10" -> Expr("count", ">", 10000)
      [] text = "count>50" -> Expr("count", ">", 50000)
      [] text = "count>100" -> Expr("count", ">", 100000)

\* the expression a allows no more than the expression b does
NoLaxer(a, b) ==
    /\ a.agg = b.agg
    /\ a.op = b.op
    /\ IF a.op = "<" THEN a.milli <= b.milli ELSE a.milli >= b.milli

\* every threshold of the laxer set is matched, metric by metric, by one of
\* the stricter set that allows no more
AtLeastAsStrict(strict, lax) ==
    \A m \in DOMAIN lax :
        /\ m \in DOMAIN strict
        /\ \A j \in 1..Len(lax[m]) :
              \E i \in 1..Len(strict[m]) :
                  NoLaxer(ThresholdExpr(strict[m][i]), ThresholdExpr(lax[m][j]))

LaxerThan(environment) ==
    CASE environment = "'production'" -> {"'staging'", "'dev'"}
      [] environment = "'staging'" -> {"'dev'"}
      [] OTHER -> {}

\* C21: the thresholds in force for production are at least as strict as those
\* of staging and dev, and those in force for staging at least as strict as
\* those of dev, metric by metric, in the shared config and in the
\* threshold-validation script.
C21_Stricter ==
    /\ (call.fn = "getThresholds" /\ call.result.kind = "own")
          => \A e \in LaxerThan(call.env.ENVIRONMENT) :
                AtLeastAsStrict(call.result.value, thresholds[e])
    /\ (call.fn = "threshold-validation" /\ call.options.thresholds.kind = "own")
          => \A e \in LaxerThan(call.env.ENVIRONMENT) :
                AtLeastAsStrict(call.options.thresholds.value, validationThresholds[e])

C21_Witness ==
    /\ call.fn = "getThresholds"
    /\ call.env.ENVIRONMENT = "'staging'"
    /\ call.result.kind = "own"
    /\ call.result.value.http_req_duration = <<"p(95)<500">>

-----------------------------------------------------------------------------
(* C22, C23: the data generators *)

\* C22: for all integers min <= max, randomInt(min, max) is an integer r with
\* min <= r <= max, and every value of min..max is returned for some draw.
C22_RandomInt ==
    (call.fn = "randomInt" /\ call.min <= call.max)
        => /\ call.result \in call.min..call.max
           /\ \A r \in call.min..call.max :
                 \E k \in FineDraws : randomInt(call.min, call.max, k) = r

C22_Witness ==
    /\ call.fn = "randomInt"
    /\ call.min = 0 - 2
    /\ call.max = 3
    /\ call.result = 3

Returned23 == call.fn = "generateDummyPayload" /\ call.done

Prefix(items, m) == SubSeq(items, 1, m)

\* the serialization reaches the target and the ids are 1..n
ReachesTarget ==
    /\ StringifyLength(call.items) >= call.targetSize
    /\ \A i \in 1..Len(call.items) : call.items[i] = i

\* C23 as stated: for every sizeInKB >= 0 the call returns, the serialization
\* of items is at least sizeInKB*1024 characters long, the ids are 1..n, and
\* no smaller item count reaches the target size.
C23_AsStated ==
    /\ [](Returned23
            => /\ ReachesTarget
               /\ \A m \in 0..(Len(call.items) - 1) :
                     StringifyLength(Prefix(call.items, m)) < call.targetSize)
    /\ (Running ~> Returned23)

\* C23: for every sizeInKB >= 0 the call returns, the serialization of items
\* is at least sizeInKB*1024 characters long, the ids are 1..n, and the loop
\* stops with no item when the target is 0 and else at the first item count
\* of at least 1 that reaches the target size.
C23_Payload ==
    /\ [](Returned23
            => /\ ReachesTarget
               /\ call.items = <<>> <=> call.targetSize = 0
               /\ \A m \in 1..(Len(call.items) - 1) :
                     StringifyLength(Prefix(call.items, m)) < call.targetSize)
    /\ (Running ~> Returned23)

C23_Witness ==
    /\ Returned23
    /\ call.targetSize = 1024
    /\ Len(call.items) = 7
    /\ call.currentSize = 1107

-----------------------------------------------------------------------------
(* C27: the recorded outcome of a login of the custom-metrics scenario *)

\* the virtual user v receives in this step the server's answer to its login
LoginAnswered(v) ==
    /\ vu[v].pc = "login"
    /\ vu[v].script = "custom-metrics"
    /\ vu'[v].pc = "users"
    /\ vu'[v].loginStatus # 0

RecordedFailure ==
    /\ metrics'.count["login_failures"] = metrics.count["login_failures"] + 1
    /\ metrics'.count["login_successes"] = metrics.count["login_successes"]
    /\ metrics'.login_success_rate.fails = metrics.login_success_rate.fails + 1
    /\ metrics'.login_success_rate.passes = metrics.login_success_rate.passes

RecordedSuccess ==
    /\ metrics'.count["login_successes"] = metrics.count["login_successes"] + 1
    /\ metrics'.count["login_failures"] = metrics.count["login_failures"]
    /\ metrics'.login_success_rate.passes = metrics.login_success_rate.passes + 1
    /\ metrics'.login_success_rate.fails = metrics.login_success_rate.fails

\* C27 as stated: against the mock server an iteration that picked the
\* password 'wrongpass' gets a login response other than 200 and is recorded
\* as a failure (login_failures incremented, a false sample in
\* login_success_rate), and an iteration that picked 'testpass' is recorded
\* as a success.
C27_AsStated ==
    [][\A v \in VUs :
          LoginAnswered(v)
            => IF vu[v].password = "'wrongpass'"
               THEN vu'[v].loginStatus # 200 /\ RecordedFailure
               ELSE vu'[v].loginStatus = 200 /\ RecordedSuccess]_vars

-----------------------------------------------------------------------------
(* C26: the steps of an iteration of the user-journey scenario *)

Journey == <<"login", "browse", "detail", "detail", "detail", "cart", "me">>

IsPrefix(a, b) == Len(a) <= Len(b) /\ a = SubSeq(b, 1, Len(a))

\* the virtual user v has the response to the login of its iteration
LoginReturned(v) == vu[v].script = "user-journey" /\ vu[v].pc # "login"

\* the virtual user v receives in this step a login response other than 200
LoginRefused(v) ==
    /\ vu[v].pc = "login"
    /\ vu'[v].pc # "login"
    /\ vu'[v].loginStatus # 200

PurchasesUnchanged ==
    /\ metrics'.count["purchase_attempts"] = metrics.count["purchase_attempts"]
    /\ metrics'.count["purchase_success"] = metrics.count["purchase_success"]

Completed(v) == vu[v].pc = "ended" /\ vu[v].requests = Journey

-----------------------------------------------------------------------------
(* C28: the counters of the user-journey and custom-metrics scenarios *)

Count(counter) == metrics.count[counter]

\* the virtual users that counted a login attempt and wait for its response
AwaitingLogin == {v \in VUs : vu[v].script = "custom-metrics" /\ vu[v].pc = "login"}

\* some virtual user of the custom-metrics scenario is at the end of an iteration
IterationEnded == \E v \in VUs : vu[v].script = "custom-metrics" /\ vu[v].pc = "ended"

\* C28 as stated: with any number of virtual users and iterations,
\* purchase_success <= purchase_attempts in the user-journey scenario, and in
\* the custom-metrics scenario login_attempts = login_successes +
\* login_failures at the end of every iteration.
C28_AsStated ==
    /\ Count("purchase_success") <= Count("purchase_attempts")
    /\ IterationEnded
         => Count("login_attempts") = Count("login_successes") + Count("login_failures")

\* C28: with any number of virtual users and iterations, purchase_success <=
\* purchase_attempts in the user-journey scenario, and in the custom-metrics
\* scenario login_attempts = login_successes + login_failures + the number of
\* virtual users that counted their attempt and have not yet recorded its
\* result.
C28_Counters ==
    /\ Count("purchase_success") <= Count("purchase_attempts")
    /\ Count("login_attempts")
         = Count("login_successes") + Count("login_failures") + Cardinality(AwaitingLogin)

C28_Witness ==
    /\ IterationEnded
    /\ AwaitingLogin # {}
    /\ Count("login_attempts") = 2
    /\ Count("login_successes") + Count("login_failures") = 1

-----------------------------------------------------------------------------
(* C25: update and delete after a successful creation *)

\* the iteration of v is over and its creation request was answered 201
CreatedAndEnded(v) ==
    /\ vu[v].script = "data-correlation"
    /\ vu[v].pc = "ended"
    /\ vu[v].createRes.status = 201

\* the last two requests of v
LastTwo(v) == SubSeq(vu[v].requests, Len(vu[v].requests) - 1, Len(vu[v].requests))

\* C25 as stated: in every iteration whose creation request is answered 201,
\* the update (PUT) and then the delete (DELETE) are executed, in that order,
\* against the id returned by the creation response.
C25_AsStated ==
    \A v \in VUs :
       CreatedAndEnded(v)
         => LET id == ToString(vu[v].createRes.body.data.id)
            IN  LastTwo(v) = <<"PUT /api/users/" \o id, "DELETE /api/users/" \o id>>

-----------------------------------------------------------------------------
(* C24: the authenticated request after a successful login *)

\* the virtual user v has the server's response to GET /api/auth/me with the
\* token of a login answered 200
MeAnswered(v) ==
    /\ vu[v].script = "authentication"
    /\ vu[v].pc \in {"invalid", "ended"}
    /\ vu[v].loginRes.status = 200
    /\ vu[v].meRes.status # 0

\* C24 as stated: against the mock server, whenever the login returns 200 the
\* following GET /api/auth/me with the extracted token passes both checks:
\* the status is 200, and body.success, body.data and body.data.userId are
\* all truthy.
C24_AsStated ==
    \A v \in VUs :
       MeAnswered(v) => StatusIs200(vu[v].meRes) /\ UserInfoObtained(vu[v].meRes)

-----------------------------------------------------------------------------
(* C29: the success field and the HTTP status *)

\* the last response is one the claim is about
Answered == last.route \notin {"none", "GET /health"}

\* the body of the last response says success: true
SaysSuccess == "success" \in DOMAIN last.res.body /\ last.res.body.success

\* C29 as stated: for every response of the server other than /health, the
\* body's success field is true exactly when the HTTP status is below 400.
C29_AsStated == Answered => (SaysSuccess <=> last.res.status < 400)

\* C29: every response of the server other than /health that carries a body
\* has a success field, which is true exactly when the HTTP status is below
\* 400; the responses without a body are those to HEAD requests, to CORS
\* preflight requests and those of /api/status/:code with a status from 100
\* to 199, 204, 205 or 304.
C29_Success ==
    Answered
      => IF last.res.body = NoBody
         THEN \/ last.req.method \in {"HEAD", "OPTIONS"}
              \/ /\ last.route = "GET /api/status/:code"
                 /\ last.res.status \in (100..199) \cup {204, 205, 304}
         ELSE /\ "success" \in DOMAIN last.res.body
              /\ last.res.body.success <=> last.res.status < 400

C29_Witness ==
    /\ last.route = "404 handler"
    /\ last.res.status = 404
    /\ last.res.body # NoBody
    /\ ~last.res.body.success

====
